---- MODULE Spec2Model ----
(***************************************************************************)
(* Grid-search model selection (quapy/model_selection.py, GridSearchQ) and *)
(* the parallel units of the aggregative quantifiers                       *)
(* (quapy/method/aggregative.py), as state machines.                       *)
(*                                                                         *)
(* Python values are encoded as follows:                                   *)
(*   None / unset attribute   << >>          (NoneVal)                     *)
(*   a present value v        << v >>        (Some(v))                     *)
(*   a float score s          <<"float", s>> inside param_scores_          *)
(*   the str 'timeout'        <<"str", "timeout">>                         *)
(* A model object is a reference into `heap`; deepcopy allocates.          *)
(***************************************************************************)
EXTENDS Integers, Sequences, FiniteSets, TLC

----------------------------------------------------------------------------
(* Bounds of the model *)

MaxConfigs == 3      \* largest grid (number of configurations) explored
TimeoutSecs == 2     \* the positive value of `timeout`, in seconds
MaxScore == 1        \* error scores are drawn from 0..MaxScore
NWorkers == 2        \* largest n_jobs
MaxFits == 2         \* number of calls of fit on the same GridSearchQ object
MaxPositives == 2    \* positive predictions in one column of a One-vs-All sample

----------------------------------------------------------------------------
(* Python values *)

NoneVal == << >>
Some(v) == << v >>
Float(s) == <<"float", s>>
TimeoutMarker == <<"str", "timeout">>

\* the base quantifier held in self.model (GridSearchQ.__init__)
SelfModel == 0
DefaultParams == [p |-> 0, q |-> 0]

\* the collection handed to fit, and the one behind the protocol
Training == <<"train">>
ProtocolData == <<"val">>

Workers == 1..NWorkers

----------------------------------------------------------------------------
(* The grid: itertools.product over the value lists, last key fastest *)

\* candidate values of p: 1..n; of q: one value or two
ValueLists == { [i \in 1..n |-> i] : n \in 1..MaxConfigs }
FlagLists == { <<1>>, <<1, 2>> }

Hyper(grid) ==
    LET np == Len(grid.p)
        nq == Len(grid.q)
    IN  [k \in 1..(np * nq) |->
            [p |-> grid.p[((k - 1) \div nq) + 1], q |-> grid.q[((k - 1) % nq) + 1]]]

Grids == { g \in [p : ValueLists, q : FlagLists] : Len(g.p) * Len(g.q) <= MaxConfigs }

\* str(params) of a dict with keys p, q
StrOf(params) ==
    "{'p': " \o ToString(params.p) \o ", 'q': " \o ToString(params.q) \o "}"

----------------------------------------------------------------------------
VARIABLES
    \* GridSearchQ constructor arguments
    param_grid,      \* [p |-> list, q |-> list]
    protocol,        \* "OnLabelledCollectionProtocol" or "AbstractProtocol"
    refit,           \* BOOLEAN
    timeout,         \* -1 or a positive number of seconds
    n_jobs,          \* number of workers used by qp.util.parallel
    \* attributes set by fit
    param_scores_,   \* dict: str(params) -> Float(s) or TimeoutMarker
    best_score_,     \* NoneVal or Some(s)
    best_params_,    \* unset or Some(params)
    best_model_,     \* unset or Some(ref)
    \* the run of fit
    phase,           \* "Idle", "Evaluating", "Selecting", "Refitting", "Fitted", "Failed"
    error,           \* name of the exception that ended the last fit, or "none"
    nfits,           \* number of calls of fit so far
    trials,          \* number of trials started so far
    next,            \* index in hyper of the next configuration to dispatch
    scores,          \* results of the parallel call, by index of the argument
    raised,          \* "none", or the exception that left a trial uncaught
    \* worker processes
    wk,              \* per worker: position in _delayed_eval and its locals
    alarm,           \* per worker process: seconds until SIGALRM, 0 = no alarm pending
    stray,           \* a TimeoutError was raised by the handler outside any trial
    \* objects
    heap,            \* ref -> [params, fitted]
    \* history
    need,            \* per configuration index: seconds the trial needs (set at start)
    computed,        \* per configuration index: what the trial evaluated, and whether
                     \* a later configuration had returned before it
    \* OneVsAllAggregative
    classes_,        \* the ordered class labels, keys of dict_binary_quantifiers
    classif_predictions, \* per column: the class it was predicted for, and its positives
    prevalences,     \* results of the parallel call of aggregate, by position
    estimate,        \* the value returned by aggregate, or NoneVal
    ova_pc,          \* "idle", "aggregating", "done", "IndexError"
    \* AggregativeMedianEstimator
    median_grid,     \* constructor: [aggregative, cls, q], the base kind and the grid
    median_heap,     \* ref -> quantifier object; BaseQuantifier is self.base_quantifier
    models_preds,    \* results of the classifier units: Some([model, predictions])
    median_results,  \* results of the units of the last parallel call of fit
    models,          \* self.models: unset, or Some(list of refs)
    median_pc,       \* "idle", "classifiers", "aggregations", "fitting", "fitted"
    median_fits,     \* number of calls of fit so far
    median_trained,  \* per classifier configuration: trainings invoked by the last fit
    \* an AggregativeQuantifier (ACC, EMQrecalib or DyS) and its classifier
    quantifier,      \* constructor: [kind, val_split, recalib, divergence]
    classifier,      \* self.classifier: [capable, adapter, trained, fit_on]
    aggregation_,    \* attributes set by aggregation_fit: unset or Some(...)
    trainings,       \* number of training operations invoked on a classifier
    warnings,        \* number of warnings printed
    last_call,       \* the last call of fit or aggregate: arguments and outcome
    ncalls,          \* number of calls so far
    \* aggregation functions of ACC, PACC and SMM
    agg_kind,        \* "ACC", "PACC" or "SMM"
    val_preds,       \* the evaluation predictions given to aggregation_fit
    fitted_,         \* Pte_cond_estim_ (ACC, PACC) or the two means (SMM); unset or Some
    prevs_estim,     \* the raw estimate of the last aggregate; unset or Some
    adjusted_prevs,  \* the value returned by the last aggregate; unset or Some
    \* EMQ.EM
    em_s,            \* s: number of iterations done
    converged,       \* BOOLEAN
    qs_prev_,        \* unset, or Some(estimate of the previous iteration)
    qs,              \* the running estimate: the iteration that computed it (0 = tr_prev)
    em_below,        \* whether mae(qs, qs_prev_) < epsilon held in the last iteration
    em_warned,       \* the non-convergence warning was printed
    em_pc,           \* "idle", "loop", "returned"
    \* DyS._ternary_search
    ts_f,            \* the function f: [mu, down, up], minimizer and the two slopes
    ts_tol,          \* tol
    left,            \* left
    right,           \* right
    ts_result,       \* unset, or Some(returned value)
    ts_pc,           \* "idle", "search", "returned"
    \* the distribution-matching quantifiers HDy, DyS and DMy
    dm_quantifier,   \* constructor: [kind, cdf]
    dm_reference,    \* set by aggregation_fit: per bin count, the two class histograms
    dm_test,         \* built by aggregate: per bin count, the histogram of the sample
    dm_pc,           \* "idle", "fitted", "aggregated"
    \* the Threshold-Optimization family: T50, MAX, X, MS, MS2
    thr_method,      \* the class of the quantifier
    thr_val,         \* classif_predictions given to aggregation_fit: (score, label) pairs
    thr_fitted,      \* unset, or Some(list of the retained [tpr, fpr, threshold])
    thr_sample,      \* the decision scores given to aggregate
    thr_estimate,    \* unset, or Some(the value returned by aggregate)
    thr_pc,          \* "idle", "fitted", "aggregated"
    \* AggregativeMedianEstimator.quantify
    prev_preds,      \* results of the parallel call of quantify, by member
    median_estimate, \* unset, or Some(the value returned by quantify)
    \* EMQrecalib: the recalibration state
    recalib,              \* self.recalib: unset (None) or Some(name)
    exact_train_prev,     \* self.exact_train_prev
    calibration_function, \* the attribute: absent, or Some(the function learnt)
    train_prevalence,     \* the attribute: absent, or Some(what it was computed from)
    rc_fitted,            \* unset, or Some(self.recalib as the last aggregation_fit saw it)
    rc_posteriors,        \* unset, or Some(the value returned by the last classify)
    rc_pc,                \* "idle", "set", "fitted", "ValueError", "classified"
    rc_calls              \* number of calls so far

gridVars == << param_grid, protocol, refit, timeout, n_jobs,
               param_scores_, best_score_, best_params_, best_model_,
               phase, error, nfits, trials, next, scores, raised,
               wk, alarm, stray, heap, need, computed >>

ovaVars == << classes_, classif_predictions, prevalences, estimate, ova_pc >>

medianVars == << median_grid, median_heap, models_preds, median_results, models,
                 median_pc, median_fits, median_trained >>

quantVars == << quantifier, classifier, aggregation_, trainings, warnings,
                last_call, ncalls >>

aggVars == << agg_kind, val_preds, fitted_, prevs_estim, adjusted_prevs >>

emVars == << em_s, converged, qs_prev_, qs, em_below, em_warned, em_pc >>

tsVars == << ts_f, ts_tol, left, right, ts_result, ts_pc >>

dmVars == << dm_quantifier, dm_reference, dm_test, dm_pc >>

thrVars == << thr_method, thr_val, thr_fitted, thr_sample, thr_estimate, thr_pc >>

mqVars == << prev_preds, median_estimate >>

rcVars == << recalib, exact_train_prev, calibration_function, train_prevalence,
             rc_fitted, rc_posteriors, rc_pc, rc_calls >>

vars == << gridVars, ovaVars, medianVars, quantVars, aggVars, emVars, tsVars, dmVars, thrVars, mqVars, rcVars >>

\* what the actions of one component leave alone
nonGrid == << ovaVars, medianVars, quantVars, aggVars, emVars, tsVars, dmVars, thrVars, mqVars, rcVars >>
nonOva == << gridVars, medianVars, quantVars, aggVars, emVars, tsVars, dmVars, thrVars, mqVars, rcVars >>
nonMedian == << gridVars, ovaVars, quantVars, aggVars, emVars, tsVars, dmVars, thrVars, mqVars, rcVars >>
nonQuant == << gridVars, ovaVars, medianVars, aggVars, emVars, tsVars, dmVars, thrVars, mqVars, rcVars >>
nonAgg == << gridVars, ovaVars, medianVars, quantVars, emVars, tsVars, dmVars, thrVars, mqVars, rcVars >>
nonEm == << gridVars, ovaVars, medianVars, quantVars, aggVars, tsVars, dmVars, thrVars, mqVars, rcVars >>
nonTs == << gridVars, ovaVars, medianVars, quantVars, aggVars, emVars, dmVars, thrVars, mqVars, rcVars >>
nonDm == << gridVars, ovaVars, medianVars, quantVars, aggVars, emVars, tsVars, thrVars, mqVars, rcVars >>
nonThr == << gridVars, ovaVars, medianVars, quantVars, aggVars, emVars, tsVars, dmVars, mqVars, rcVars >>
nonMq == << gridVars, ovaVars, medianVars, quantVars, aggVars, emVars, tsVars, dmVars, thrVars, rcVars >>
nonRc == << gridVars, ovaVars, medianVars, quantVars, aggVars, emVars, tsVars, dmVars, thrVars, mqVars >>

ctor == << param_grid, protocol, refit, timeout, n_jobs >>
attrs == << param_scores_, best_score_, best_params_, best_model_ >>

hyper == Hyper(param_grid)

IdleWorker == [pc |-> "idle", task |-> 0, left |-> 0]

NoResults == [i \in 1..MaxConfigs |-> NoneVal]

\* a GridSearchQ right after __init__
InitGrid ==
    /\ param_grid \in Grids
    /\ protocol \in {"OnLabelledCollectionProtocol", "AbstractProtocol"}
    /\ refit \in BOOLEAN
    /\ timeout \in {-1, TimeoutSecs}
    /\ n_jobs \in {1, NWorkers}
    /\ param_scores_ = << >>
    /\ best_score_ = NoneVal
    /\ best_params_ = NoneVal
    /\ best_model_ = NoneVal
    /\ phase = "Idle"
    /\ error = "none"
    /\ nfits = 0
    /\ trials = 0
    /\ next = 1
    /\ scores = NoResults
    /\ raised = "none"
    /\ wk = [w \in Workers |-> IdleWorker]
    /\ alarm = [w \in Workers |-> 0]
    /\ stray = FALSE
    /\ heap = (SelfModel :> [params |-> DefaultParams, fitted |-> << >>])
    /\ need = [i \in 1..MaxConfigs |-> 0]
    /\ computed = [i \in 1..MaxConfigs |-> NoneVal]

\* a fitted OneVsAllAggregative on which aggregate has not been called
OvaAtRest ==
    /\ classes_ = <<0, 1, 2>>
    /\ classif_predictions = << >>
    /\ prevalences = << >>
    /\ estimate = NoneVal
    /\ ova_pc = "idle"

\* self.base_quantifier
BaseQuantifier == <<"base_quantifier">>

\* the classifier configurations a grid can hold ({} when it names no
\* classifier parameter), none of them trained
ClsConfigs == { << >>, <<1>>, <<2>> }
NoTraining == [c \in ClsConfigs |-> 0]

\* a quantifier object as constructed: default parameters, nothing fitted
NewQuantifier == [cls |-> 0, q |-> 0, classifier |-> << >>, aggregation |-> NoneVal]

\* an AggregativeMedianEstimator right after __init__, with a grid of one
\* classifier configuration and one quantifier configuration
MedianAtRest ==
    /\ median_grid = [aggregative |-> TRUE, cls |-> << >>, q |-> <<1>>]
    /\ median_heap = (BaseQuantifier :> NewQuantifier)
    /\ models_preds = << >>
    /\ median_results = << >>
    /\ models = NoneVal
    /\ median_pc = "idle"
    /\ median_fits = 0
    /\ median_trained = NoTraining

PyInt(k) == <<"int", k>>
LabelledCollection == <<"LabelledCollection">>

\* a quantifier on which no method has been called yet
Unfitted ==
    /\ aggregation_ = NoneVal
    /\ trainings = 0
    /\ warnings = 0
    /\ last_call = NoneVal
    /\ ncalls = 0

\* an ACC(classifier) right after __init__ (val_split = 5)
QuantifierAtRest ==
    /\ quantifier = [kind |-> "ACC", val_split |-> PyInt(5), recalib |-> NoneVal,
                     divergence |-> NoneVal]
    /\ classifier = [capable |-> TRUE, adapter |-> NoneVal, trained |-> FALSE]
    /\ Unfitted

\* an aggregation function that was never fitted
AggUnfitted ==
    /\ val_preds = NoneVal
    /\ fitted_ = NoneVal
    /\ prevs_estim = NoneVal
    /\ adjusted_prevs = NoneVal

AggAtRest == agg_kind = "ACC" /\ AggUnfitted

\* EMQ.EM not called yet
EmAtRest ==
    /\ em_s = 0
    /\ converged = FALSE
    /\ qs_prev_ = NoneVal
    /\ qs = 0
    /\ em_below = FALSE
    /\ em_warned = FALSE
    /\ em_pc = "idle"

\* DyS._ternary_search not called yet
TsIdle ==
    /\ left = NoneVal
    /\ right = NoneVal
    /\ ts_result = NoneVal
    /\ ts_pc = "idle"

TsAtRest ==
    /\ ts_f = [mu |-> 0, down |-> 1, up |-> 1]
    /\ ts_tol = 0
    /\ TsIdle

\* an HDy right after __init__
DmAtRest ==
    /\ dm_quantifier = [kind |-> "HDy", cdf |-> FALSE]
    /\ dm_reference = NoneVal
    /\ dm_test = NoneVal
    /\ dm_pc = "idle"

\* a T50 right after __init__
ThrAtRest ==
    /\ thr_method = "T50"
    /\ thr_val = << >>
    /\ thr_fitted = NoneVal
    /\ thr_sample = << >>
    /\ thr_estimate = NoneVal
    /\ thr_pc = "idle"

\* quantify not called yet
MqAtRest ==
    /\ prev_preds = << >>
    /\ median_estimate = NoneVal

\* an EMQrecalib right after __init__ with the default recalib
RcNew ==
    /\ calibration_function = NoneVal
    /\ train_prevalence = NoneVal
    /\ rc_fitted = NoneVal
    /\ rc_posteriors = NoneVal
    /\ rc_pc = "idle"
    /\ rc_calls = 0
RcAtRest ==
    /\ recalib = Some("bcts")
    /\ exact_train_prev = FALSE
    /\ RcNew

\* the components that a specification of one component leaves at rest
Init == InitGrid /\ OvaAtRest /\ MedianAtRest /\ QuantifierAtRest /\ AggAtRest
        /\ EmAtRest /\ TsAtRest /\ DmAtRest /\ ThrAtRest /\ MqAtRest /\ RcAtRest

----------------------------------------------------------------------------
(* GridSearchQ.fit, lines 75-87: reset the attributes, build the grid and  *)
(* hand one (params, training) argument per configuration to the pool      *)

\* objects still referenced when a new fit starts
Reachable == {SelfModel} \cup { best_model_[k] : k \in DOMAIN best_model_ }

FitStart ==
    /\ phase \in {"Idle", "Fitted", "Failed"}
    /\ nfits < MaxFits
    /\ trials + Len(hyper) <= MaxConfigs
    /\ param_scores_' = << >>
    /\ best_score_' = NoneVal
    /\ phase' = "Evaluating"
    /\ error' = "none"
    /\ nfits' = nfits + 1
    /\ next' = 1
    /\ scores' = NoResults
    /\ raised' = "none"
    /\ heap' = [r \in Reachable |-> heap[r]]
    /\ need' = [i \in 1..MaxConfigs |-> 0]
    /\ computed' = [i \in 1..MaxConfigs |-> NoneVal]
    /\ UNCHANGED << ctor, best_params_, best_model_, trials, wk, alarm, stray, nonGrid >>

----------------------------------------------------------------------------
(* GridSearchQ._delayed_eval, one call per configuration, run by a worker  *)

\* signal.alarm(t) that leaves an alarm already pending in place
ArmedAlarmKeepPending(pending, t) == IF pending > 0 THEN pending ELSE t

\* signal.alarm(t): the new alarm replaces whatever alarm was pending
ArmedAlarm(pending, t) == t

\* the reference bound to `model` by deepcopy(self.model) in trial i
NewRef(i) == (nfits - 1) * MaxConfigs + i
\* line 135 without the copy: model = self.model
TrialModelShared(i) == SelfModel

TrialModel(i) == NewRef(i)

\* model.set_params(**params); model.fit(training)
SetParamsAndFit(obj, params, training) ==
    [obj EXCEPT !.params = params, !.fitted = training]

\* the tuple returned at line 150
Result(params, score, model) == [params |-> params, score |-> score, model |-> model]

\* seconds the try block of a trial may need: one less than the time limit, or
\* the whole of it; without a time limit the duration makes no difference
Durations == IF timeout > 0 THEN (TimeoutSecs - 1)..TimeoutSecs ELSE {TimeoutSecs - 1}

\* deepcopy(src): a new object ref with the state of src
Copied(h, ref, src) == (ref :> h[src]) @@ h

\* where the handler can interrupt the try block once `model` is bound: after
\* line 135, after line 137 or after line 138
Interrupted(obj, params, training) ==
    { obj,
      [obj EXCEPT !.params = params],
      SetParamsAndFit(obj, params, training) }

\* lines 118-132: the worker takes the next argument, installs the handler
\* and arms the alarm; the try block of this trial will need nd seconds, less
\* than a positive timeout or not
Start(w) ==
    /\ phase = "Evaluating"
    /\ raised = "none"
    /\ w <= n_jobs
    /\ wk[w].pc = "idle"
    /\ \A v \in 1..(w - 1) : wk[v].pc # "idle"
    /\ next <= Len(hyper)
    /\ \E nd \in Durations :
          /\ need' = [need EXCEPT ![next] = nd]
          /\ wk' = [wk EXCEPT ![w] = [pc |-> "try", task |-> next, left |-> nd]]
    /\ alarm' = [alarm EXCEPT ![w] = IF timeout > 0 THEN ArmedAlarm(@, timeout) ELSE @]
    /\ next' = next + 1
    /\ trials' = trials + 1
    /\ UNCHANGED << ctor, attrs, phase, error, nfits, scores, raised, stray, heap,
                    computed, nonGrid >>

\* lines 134-145 and 150, uninterrupted: the copy is made, configured, fitted
\* and evaluated, the alarm is cancelled and the tuple is returned. The steps
\* act on the trial's own copy, so they are taken as one.
Evaluate(w) ==
    /\ wk[w].pc = "try"
    /\ wk[w].left = 0
    /\ \E s \in 0..MaxScore :
          LET i == wk[w].task
              ref == TrialModel(i)
              copied == Copied(heap, ref, SelfModel)
              fitted == [copied EXCEPT ![ref] = SetParamsAndFit(@, hyper[i], Training)]
          IN  /\ heap' = fitted
              /\ scores' = [scores EXCEPT ![i] = Some(Result(hyper[i], Some(s), ref))]
              /\ computed' = [computed EXCEPT ![i] =
                                 Some([params |-> fitted[ref].params, score |-> s,
                                       overtaken |-> \E j \in (i + 1)..Len(hyper) :
                                                        scores[j] # NoneVal])]
    /\ alarm' = [alarm EXCEPT ![w] = IF timeout > 0 THEN 0 ELSE @]
    /\ wk' = [wk EXCEPT ![w] = IdleWorker]
    /\ UNCHANGED << ctor, attrs, phase, error, nfits, trials, next, raised, stray,
                    need, nonGrid >>

\* an exception other than TimeoutError leaves deepcopy, set_params, fit or
\* evaluate: no except clause catches it and line 145 is not reached
TrialError(w) ==
    /\ wk[w].pc = "try"
    /\ wk' = [wk EXCEPT ![w] = IdleWorker]
    /\ raised' = IF raised = "none" THEN "Exception" ELSE raised
    /\ UNCHANGED << ctor, attrs, phase, error, nfits, trials, next, scores, alarm,
                    stray, heap, need, computed, nonGrid >>

\* lines 146-150 after the handler raised TimeoutError inside the try block:
\* score = None, then the return statement reads `model`, which is bound only
\* if the interrupt came after line 135
AfterTimeout(w) ==
    LET i == wk[w].task
        ref == TrialModel(i)
    IN  \/ /\ raised' = IF raised = "none" THEN "UnboundLocalError" ELSE raised
           /\ UNCHANGED << scores, heap >>
        \/ /\ \E obj \in Interrupted(heap[SelfModel], hyper[i], Training) :
                 heap' = [Copied(heap, ref, SelfModel) EXCEPT ![ref] = obj]
           /\ scores' = [scores EXCEPT ![i] = Some(Result(hyper[i], NoneVal, ref))]
           /\ UNCHANGED raised

\* one second of the try block passes in the worker's process; when the
\* pending alarm expires the handler raises TimeoutError at that point
Elapse(w) ==
    /\ wk[w].pc = "try"
    /\ wk[w].left > 0
    /\ IF alarm[w] = 1
       THEN /\ alarm' = [alarm EXCEPT ![w] = 0]
            /\ wk' = [wk EXCEPT ![w] = IdleWorker]
            /\ AfterTimeout(w)
       ELSE /\ alarm' = [alarm EXCEPT ![w] = IF @ > 0 THEN @ - 1 ELSE @]
            /\ wk' = [wk EXCEPT ![w].left = @ - 1]
            /\ UNCHANGED << scores, raised, heap >>
    /\ UNCHANGED << ctor, attrs, phase, error, nfits, trials, next, stray, need,
                    computed, nonGrid >>

\* an alarm still pending after its trial ended expires while the process
\* runs other code: the installed handler raises TimeoutError there
StrayAlarm(w) ==
    /\ wk[w].pc = "idle"
    /\ alarm[w] > 0
    /\ alarm' = [alarm EXCEPT ![w] = 0]
    /\ stray' = TRUE
    /\ UNCHANGED << ctor, attrs, phase, error, nfits, trials, next, scores, raised, wk,
                    heap, need, computed, nonGrid >>

----------------------------------------------------------------------------
(* qp.util.parallel: the join point of the pool *)

Join ==
    /\ phase = "Evaluating"
    /\ \A w \in Workers : wk[w].pc = "idle"
    /\ \/ /\ raised # "none"
          /\ phase' = "Failed"
          /\ error' = raised
       \/ /\ raised = "none"
          /\ next > Len(hyper)
          /\ phase' = "Selecting"
          /\ UNCHANGED error
    /\ UNCHANGED << ctor, attrs, nfits, trials, next, scores, raised, wk, alarm, stray,
                    heap, need, computed, nonGrid >>

----------------------------------------------------------------------------
(* GridSearchQ.fit, lines 89-102: the selection loop *)

\* line 91 with the comparison reversed
BetterReversed(score, best) == best = NoneVal \/ score > best[1]

\* line 91 with <= in the place of <
BetterOrEqual(score, best) == best = NoneVal \/ score <= best[1]

\* line 91
Better(score, best) == best = NoneVal \/ score < best[1]

\* lines 95 and 97 without the marker: a failed trial is stored as score 0
EntryNoMarker(score) == IF score # NoneVal THEN Float(score[1]) ELSE Float(0)

\* lines 95 and 97: the value stored under str(params)
Entry(score) == IF score # NoneVal THEN Float(score[1]) ELSE TimeoutMarker

\* one iteration of the loop (lines 90-97) on the tuple r
SelectStep(st, r) ==
    LET kept == IF r.score # NoneVal /\ Better(r.score[1], st.best_score_)
                THEN [st EXCEPT !.best_score_ = r.score,
                                !.best_params_ = Some(r.params),
                                !.best_model_ = Some(r.model)]
                ELSE st
    IN  [kept EXCEPT !.param_scores_ = (StrOf(r.params) :> Entry(r.score)) @@ @]

RECURSIVE SelectionLoop(_, _, _)
SelectionLoop(results, i, st) ==
    IF i > Len(results) THEN st
    ELSE SelectionLoop(results, i + 1, SelectStep(st, results[i]))

\* line 107 without the test of self.refit
AfterSelectionAlwaysRefit(requested) == "Refitting"

\* line 107: where fit goes once a best configuration exists
AfterSelection(requested) == IF requested THEN "Refitting" ELSE "Fitted"

Select ==
    /\ phase = "Selecting"
    /\ LET results == [i \in 1..Len(hyper) |-> scores[i][1]]
           st == SelectionLoop(results, 1,
                     [best_score_ |-> best_score_, best_params_ |-> best_params_,
                      best_model_ |-> best_model_, param_scores_ |-> param_scores_])
       IN  /\ best_score_' = st.best_score_
           /\ best_params_' = st.best_params_
           /\ best_model_' = st.best_model_
           /\ param_scores_' = st.param_scores_
           /\ IF st.best_score_ = NoneVal
              THEN /\ phase' = "Failed"
                   /\ error' = "TimeoutError"
              ELSE /\ phase' = AfterSelection(refit)
                   /\ UNCHANGED error
    /\ UNCHANGED << ctor, nfits, trials, next, scores, raised, wk, alarm, stray, heap,
                    need, computed, nonGrid >>

----------------------------------------------------------------------------
(* GridSearchQ.fit, lines 107-115 *)

\* line 110 refitting on the training collection alone
RefitDataTrainingOnly(training, held) == training

\* training + protocol.get_labelled_collection()
RefitData(training, held) == training \o held

Refit ==
    /\ phase = "Refitting"
    /\ IF protocol = "OnLabelledCollectionProtocol"
       THEN /\ heap' = [heap EXCEPT ![best_model_[1]].fitted =
                            RefitData(Training, ProtocolData)]
            /\ phase' = "Fitted"
            /\ UNCHANGED error
       ELSE /\ phase' = "Failed"
            /\ error' = "RuntimeWarning"
            /\ UNCHANGED heap
    /\ UNCHANGED << ctor, attrs, nfits, trials, next, scores, raised, wk, alarm, stray,
                    need, computed, nonGrid >>

----------------------------------------------------------------------------
Next ==
    \/ FitStart
    \/ \E w \in Workers : Start(w)
    \/ \E w \in Workers : Evaluate(w)
    \/ \E w \in Workers : TrialError(w)
    \/ \E w \in Workers : Elapse(w)
    \/ \E w \in Workers : StrayAlarm(w)
    \/ Join
    \/ Select
    \/ Refit

Spec == Init /\ [][Next]_vars

----------------------------------------------------------------------------
(* Properties of GridSearchQ *)

Configs == 1..Len(hyper)

\* trial i returned its tuple
Returned(i) == scores[i] # NoneVal
\* trial i returned with a score / with score = None
Completed(i) == Returned(i) /\ scores[i][1].score # NoneVal
TimedOut(i) == Returned(i) /\ scores[i][1].score = NoneVal

\* fit went through the whole selection loop (lines 89-97)
SelectionDone ==
    \/ phase \in {"Refitting", "Fitted"}
    \/ phase = "Failed" /\ error \in {"TimeoutError", "RuntimeWarning"}

\* C1: when fit has returned, best_params_ is a configuration of the grid that
\* completed, its score is best_score_, and no completed configuration has a
\* smaller score.
C1_BestIsMinimal ==
    phase = "Fitted" =>
        /\ best_score_ # NoneVal
        /\ best_params_ # NoneVal
        /\ \E i \in Configs :
              /\ Completed(i)
              /\ hyper[i] = best_params_[1]
              /\ scores[i][1].score = best_score_
        /\ \A i \in Configs : Completed(i) => best_score_[1] <= scores[i][1].score[1]

\* C1 witness: fit returned on a grid of three configurations of which one
\* timed out, and the best one is neither the first nor the only one scored.
C1_Witness ==
    /\ phase = "Fitted"
    /\ Len(hyper) = 3
    /\ \E i \in Configs : TimedOut(i)
    /\ \E i, j \in Configs :
          /\ i < j
          /\ Completed(i) /\ Completed(j)
          /\ scores[j][1].score[1] < scores[i][1].score[1]
          /\ best_params_ = Some(hyper[j])

\* C2: once the selection loop has run, param_scores_ has exactly one entry per
\* configuration of the grid; the entry of a timed-out configuration is the
\* marker 'timeout', which no numeric score equals, the entry of a completed one
\* is its score; and the configuration and model selected are those of a trial
\* that did not time out.
C2_OneEntryPerConfig ==
    SelectionDone =>
        /\ DOMAIN param_scores_ = { StrOf(hyper[i]) : i \in Configs }
        /\ Cardinality(DOMAIN param_scores_) = Len(hyper)
        /\ \A i \in Configs :
              /\ TimedOut(i) => /\ param_scores_[StrOf(hyper[i])] = TimeoutMarker
                                /\ \A s \in 0..MaxScore :
                                      param_scores_[StrOf(hyper[i])] # Float(s)
              /\ Completed(i) =>
                    param_scores_[StrOf(hyper[i])] = Float(scores[i][1].score[1])
        /\ phase \in {"Refitting", "Fitted"} =>
              \E i \in Configs :
                  /\ Completed(i)
                  /\ best_params_ = Some(hyper[i])
                  /\ best_model_ = Some(scores[i][1].model)

\* C2 witness: the loop has run over a grid with a timed-out and a completed
\* configuration.
C2_Witness ==
    /\ SelectionDone
    /\ \E i, j \in Configs : TimedOut(i) /\ Completed(j)

\* C3 (as claimed): when every configuration timed out fit fails with
\* TimeoutError and does not return; when some configuration completed in time,
\* no timeout of another configuration makes fit fail.
C3_TimeoutsFailOnlyWhenAll ==
    /\ phase \in {"Refitting", "Fitted"} => \E i \in Configs : Completed(i)
    /\ phase = "Failed" /\ error = "TimeoutError" => \A i \in Configs : TimedOut(i)
    /\ phase = "Failed" /\ (\E i \in Configs : Completed(i)) =>
          error \in {"Exception", "RuntimeWarning"}

\* C4: the phase of fit changes only along Idle/Fitted/Failed -> Evaluating ->
\* Selecting -> [Refitting] -> Fitted (or to Failed when fit raises); Selecting
\* is entered only when every trial has returned and every worker is idle,
\* Refitting only from Selecting and only when refit was requested, Fitted
\* only from Selecting without refit or from Refitting.
C4_PhaseOrder ==
    [][ phase' # phase =>
          \/ phase \in {"Idle", "Fitted", "Failed"} /\ phase' = "Evaluating"
          \/ /\ phase = "Evaluating" /\ phase' = "Selecting"
             /\ \A i \in Configs : Returned(i)
             /\ \A w \in Workers : wk[w].pc = "idle"
          \/ phase = "Evaluating" /\ phase' = "Failed"
          \/ phase = "Selecting" /\ phase' = "Refitting" /\ refit
          \/ phase = "Selecting" /\ phase' = "Fitted" /\ ~refit
          \/ phase = "Selecting" /\ phase' = "Failed"
          \/ phase = "Refitting" /\ phase' \in {"Fitted", "Failed"}
      ]_vars

\* C4 witness: a second fit on the same object has gone through every phase,
\* the refit included.
C4_Witness ==
    /\ phase = "Fitted"
    /\ nfits = 2
    /\ refit
    /\ heap[best_model_[1]].fitted = <<"train", "val">>

\* C5: with refit requested and a protocol that exposes its collection, the
\* model exposed when fit has returned carries the best configuration and is
\* fitted on training followed by the protocol's collection; the refit step
\* changes none of best_params_, best_score_, param_scores_.
C5_RefitOnUnion ==
    /\ [](refit /\ protocol = "OnLabelledCollectionProtocol" /\ phase = "Fitted" =>
            heap[best_model_[1]] =
                [params |-> best_params_[1], fitted |-> <<"train", "val">>])
    /\ [][phase = "Refitting" =>
            UNCHANGED << best_params_, best_score_, param_scores_ >>]_vars

\* C5 witness: fit returned after a refit, on a grid where the best
\* configuration is not the first one.
C5_Witness ==
    /\ phase = "Fitted"
    /\ refit
    /\ protocol = "OnLabelledCollectionProtocol"
    /\ Len(hyper) > 1
    /\ best_params_ # Some(hyper[1])

\* C6 (as claimed): a refit request that the protocol cannot serve is ignored:
\* fit does not fail because of it, and returns with the best model as it was
\* trained during the evaluation.
C6_RefitIgnored ==
    /\ ~(phase = "Failed" /\ error = "RuntimeWarning")
    /\ refit /\ protocol # "OnLabelledCollectionProtocol" /\ phase = "Fitted" =>
          heap[best_model_[1]].fitted = <<"train">>

\* C7 (as claimed): when no trial is running in a worker process, no alarm is
\* pending in it, and the handler never raises outside a trial.
C7_NoAlarmLeft ==
    /\ \A w \in Workers : wk[w].pc = "idle" => alarm[w] = 0
    /\ ~stray

\* a trial that needs less than its time limit
InTime(i) == timeout <= 0 \/ need[i] < timeout

C10_BaseModelUntouched ==
    /\ heap[SelfModel] = [params |-> DefaultParams, fitted |-> << >>]
    /\ \A i \in Configs : Returned(i) =>
          /\ scores[i][1].model # SelfModel
          /\ \A j \in Configs : j # i /\ Returned(j) =>
                scores[i][1].model # scores[j][1].model
    /\ best_model_ # Some(SelfModel)

\* C10 witness: after a first fit that returned, a trial of a second fit has
\* set the parameters of its copy and fitted it.
C10_Witness ==
    /\ nfits = 2
    /\ phase = "Evaluating"
    /\ best_model_ # NoneVal
    /\ \E i \in Configs :
          /\ Completed(i)
          /\ heap[scores[i][1].model] = [params |-> hyper[i], fitted |-> <<"train">>]

\* the tuples returned by the trials carry the configuration they were called
\* with, the model fitted with it and the score evaluated on that model, and
\* param_scores_ stores each score under the key of its own configuration
C9_GridResultsKeyed ==
    /\ \A i \in Configs : Returned(i) => scores[i][1].params = hyper[i]
    /\ \A i \in Configs : Completed(i) =>
          /\ heap[scores[i][1].model].params = hyper[i]
          /\ computed[i][1].params = hyper[i]
          /\ computed[i][1].score = scores[i][1].score[1]
    /\ SelectionDone =>
          \A i \in Configs : Completed(i) =>
              param_scores_[StrOf(hyper[i])] = Float(computed[i][1].score)

\* the first configuration, in the order of itertools.product, among those
\* that completed with the smallest score
Minimal(i) ==
    /\ Completed(i)
    /\ \A j \in Configs : Completed(j) => scores[i][1].score[1] <= scores[j][1].score[1]
FirstMinimal == CHOOSE i \in Configs : Minimal(i) /\ \A j \in 1..(i - 1) : ~Minimal(j)

\* C30: once fit has selected, best_params_, best_score_ and best_model_ are
\* those of the first configuration in the grid's enumeration order among the
\* configurations that completed with the minimal score: the selection is a
\* function of the grid and of the outcome of each configuration, the same
\* whatever the order in which the workers completed the trials.
C30_FirstMinimalSelected ==
    phase \in {"Refitting", "Fitted"} =>
        /\ best_params_ = Some(hyper[FirstMinimal])
        /\ best_score_ = scores[FirstMinimal][1].score
        /\ best_model_ = Some(scores[FirstMinimal][1].model)

\* C30 witness: with two workers the second configuration completed before
\* the first one, both with the minimal score, and the first one is selected
C30_Witness ==
    /\ phase = "Fitted"
    /\ n_jobs = 2
    /\ Minimal(1) /\ Minimal(2)
    /\ Len(hyper) = 2
    /\ computed[1][1].overtaken
    /\ best_params_ = Some(hyper[1])

----------------------------------------------------------------------------
(* GridSearchQ.best_model and GridSearchQ.quantify, called between fits *)

\* best_model(), lines 185-187: hasattr(self, 'best_model_')
best_model ==
    IF best_model_ # NoneVal THEN [error |-> "none", value |-> best_model_]
    ELSE [error |-> "ValueError", value |-> NoneVal]

\* quantify(instances), lines 160-161: the estimate is that of the model
\* best_model() returns, with the parameters and the training it carries
quantify ==
    IF best_model_ = NoneVal THEN [error |-> "AssertionError", value |-> NoneVal]
    ELSE IF best_model.error # "none" THEN best_model
    ELSE [error |-> "none", value |-> Some(heap[best_model.value[1]])]

\* the last fit failed because every configuration timed out or because a
\* trial raised: fit was left at line 87 or at line 102
FitFailed == phase = "Failed" /\ error \in {"TimeoutError", "Exception", "UnboundLocalError"}

\* C28 (as claimed): after a fit that failed because every configuration
\* timed out or because a trial raised, best_model() and quantify fail, and
\* best_params_ holds no configuration: neither the model nor the
\* configuration of an earlier successful fit on the object is exposed.
C28_FailedFitExposesNothing ==
    FitFailed =>
        /\ best_model.error # "none"
        /\ quantify.error # "none"
        /\ best_params_ = NoneVal

\* the part of C28 that the code does satisfy: a failed fit leaves
\* best_score_ unset, selects nothing itself, and when no earlier fit on the
\* object has succeeded best_model() and quantify fail
C28_FailedFitSelectsNothing ==
    /\ FitFailed => best_score_ = NoneVal
    /\ FitFailed /\ nfits = 1 =>
          /\ best_model = [error |-> "ValueError", value |-> NoneVal]
          /\ quantify.error = "AssertionError"
          /\ best_params_ = NoneVal
    /\ [][FitFailed' => UNCHANGED << best_params_, best_model_ >>]_vars

\* a second fit has failed on every configuration by timeout after a first
\* fit that succeeded: quantify still answers with the model of the first fit
C28_StaleModel ==
    /\ FitFailed /\ error = "TimeoutError"
    /\ nfits = 2
    /\ quantify.error = "none"
    /\ best_params_ # NoneVal

----------------------------------------------------------------------------
(* OneVsAllAggregative.classify / aggregate, aggregative.py lines 1339-1369 *)

\* label lists a LabelledCollection can carry (sorted, distinct integers)
ClassLists == { <<0, 1, 2>>, <<-1, 0, 1>>, <<1, 2, 3>> }

NClasses == Len(classes_)

\* numpy column index a[:, c] on m columns: 1-based position, 0 = IndexError
PyColumn(c, m) ==
    IF 0 <= c /\ c < m THEN c + 1
    ELSE IF -m <= c /\ c < 0 THEN m + c + 1
    ELSE 0

\* dict_binary_quantifiers[c].aggregate(column)[1]: the positive prevalence
\* estimated by the binary quantifier of class c from that column
BinaryAggregate(c, column) == [by |-> c, on |-> column.cls, value |-> column.positives]

RECURSIVE SumValues(_, _)
SumValues(v, k) == IF k = 0 THEN 0 ELSE v[k].value + SumValues(v, k - 1)

\* F.normalize_prevalence: every entry divided by the sum, as <<num, den>>
NormalizePrevalence(v) ==
    [k \in DOMAIN v |-> [v[k] EXCEPT !.value = << v[k].value, SumValues(v, Len(v)) >>]]

\* lines 1354-1358: one unit per class, in the order of classes_; column k of
\* the matrix holds the predictions of the binary classifier of classes_[k]
OvaClassify ==
    /\ ova_pc \in {"idle", "done", "IndexError"}
    /\ classif_predictions' \in
          { [k \in 1..NClasses |-> [cls |-> classes_[k], positives |-> n[k]]] :
                n \in [1..NClasses -> 0..MaxPositives] }
    /\ prevalences' = [k \in 1..NClasses |-> NoneVal]
    /\ estimate' = NoneVal
    /\ ova_pc' = "aggregating"
    /\ UNCHANGED << classes_, nonOva >>

\* lines 1367-1369, the unit of the class at position k, run by any thread
OvaUnit(k) ==
    /\ ova_pc = "aggregating"
    /\ prevalences[k] = NoneVal
    /\ LET c == classes_[k]
           j == PyColumn(c, NClasses)
       IN  IF j = 0
           THEN /\ ova_pc' = "IndexError"
                /\ UNCHANGED prevalences
           ELSE /\ prevalences' = [prevalences EXCEPT ![k] =
                                      Some(BinaryAggregate(c, classif_predictions[j]))]
                /\ UNCHANGED ova_pc
    /\ UNCHANGED << classes_, classif_predictions, estimate, nonOva >>

\* lines 1361-1362: the pool has joined, the results are normalized
OvaJoin ==
    /\ ova_pc = "aggregating"
    /\ \A k \in 1..NClasses : prevalences[k] # NoneVal
    /\ estimate' = Some(NormalizePrevalence([k \in 1..NClasses |-> prevalences[k][1]]))
    /\ ova_pc' = "done"
    /\ UNCHANGED << classes_, classif_predictions, prevalences, nonOva >>

\* a GridSearchQ that is never fitted
GridAtRest ==
    /\ InitGrid
    /\ param_grid = [p |-> <<1>>, q |-> <<1>>]
    /\ protocol = "AbstractProtocol"
    /\ ~refit
    /\ timeout = -1
    /\ n_jobs = 1

InitOva ==
    /\ GridAtRest
    /\ EmAtRest
    /\ TsAtRest
    /\ RcAtRest
    /\ MqAtRest
    /\ ThrAtRest
    /\ DmAtRest
    /\ AggAtRest
    /\ MedianAtRest
    /\ QuantifierAtRest
    /\ classes_ \in ClassLists
    /\ classif_predictions = << >>
    /\ prevalences = << >>
    /\ estimate = NoneVal
    /\ ova_pc = "idle"

NextOva ==
    \/ OvaClassify
    \/ \E k \in 1..NClasses : OvaUnit(k)
    \/ OvaJoin

SpecOva == InitOva /\ [][NextOva]_vars

\* C9 (as claimed): the tuple of every trial of GridSearchQ carries its own
\* configuration, model and score, and the estimate that One-vs-All holds at
\* the position of a class was produced by the binary quantifier of that
\* class from the predictions made for that class.
C9_ResultsMatchedByKey ==
    /\ C9_GridResultsKeyed
    /\ \A k \in DOMAIN prevalences :
          prevalences[k] # NoneVal =>
              /\ prevalences[k][1].by = classes_[k]
              /\ prevalences[k][1].on = classes_[k]
    /\ estimate # NoneVal =>
          \A k \in 1..NClasses :
              /\ estimate[1][k].by = classes_[k]
              /\ estimate[1][k].on = classes_[k]

----------------------------------------------------------------------------
(* AggregativeMedianEstimator.fit, aggregative.py lines 1396-1463 *)

\* value lists of the grid: of a classifier parameter (possibly absent from
\* the grid) and of a parameter of the aggregation function
ClsLists == { << >>, <<1>>, <<1, 2>> }
QLists == { <<1>>, <<1, 2>>, <<1, 2, 3>> }

\* expand_grid of one group of parameters: one dict per value, or the empty
\* dict alone when the grid names no parameter of the group
ExpandGrid(values) ==
    IF values = << >> THEN << NoneVal >>
    ELSE [k \in 1..Len(values) |-> Some(values[k])]

\* group_params: the classifier configurations and the quantifier configurations
GroupParams(grid) == [cls |-> ExpandGrid(grid.cls), q |-> ExpandGrid(grid.q)]

\* model.set_params(**params) on the object obj, for the parameter named field
SetParams(obj, field, params) ==
    IF params = NoneVal THEN obj ELSE [obj EXCEPT ![field] = params[1]]

\* model.classifier_fit_predict(training): the classifier is trained with the
\* current classifier parameter; the predictions are those of that classifier
ClassifierFitPredict(obj) == [obj EXCEPT !.classifier = <<"train", obj.cls>>]
Predictions(obj) == [by |-> obj.cls]

\* model.aggregation_fit(predictions, training)
AggregationFit(obj, predictions) == [obj EXCEPT !.aggregation = Some(predictions)]

\* itertools.product(models_preds, q_configs): the pair at position k
\* (SetupFirstClassifier: every pair built on the first trained classifier)
SetupFirstClassifier(mp, q_configs, k) ==
    [mp |-> mp[1], q |-> q_configs[((k - 1) % Len(q_configs)) + 1]]
Setup(mp, q_configs, k) ==
    [mp |-> mp[((k - 1) \div Len(q_configs)) + 1],
     q |-> q_configs[((k - 1) % Len(q_configs)) + 1]]

\* expand_grid(self.param_grid): all the pairs of values, last key fastest
ExpandBoth(grid) ==
    LET g == GroupParams(grid)
    IN  [k \in 1..(Len(g.cls) * Len(g.q)) |->
            [cls |-> g.cls[((k - 1) \div Len(g.q)) + 1], q |-> g.q[((k - 1) % Len(g.q)) + 1]]]

NoUnits(n) == [k \in 1..n |-> NoneVal]

\* fit, lines 1426-1446 and 1455: up to the first parallel call; with a single
\* classifier configuration the classifier is fitted here, on self.base_quantifier
MedianFitStart ==
    /\ median_pc \in {"idle", "fitted"}
    /\ median_fits < MaxFits
    /\ median_fits' = median_fits + 1
    /\ LET g == GroupParams(median_grid)
       IN  IF ~median_grid.aggregative
           THEN /\ median_pc' = "fitting"
                /\ median_results' = NoUnits(Len(ExpandBoth(median_grid)))
                /\ median_trained' = NoTraining
                /\ UNCHANGED << median_heap, models_preds >>
           ELSE IF Len(g.cls) > 1
           THEN /\ median_pc' = "classifiers"
                /\ models_preds' = NoUnits(Len(g.cls))
                /\ median_results' = << >>
                /\ median_trained' = NoTraining
                /\ UNCHANGED median_heap
           ELSE LET model == BaseQuantifier
                    fitted == ClassifierFitPredict(
                                  SetParams(median_heap[model], "cls", g.cls[1]))
                IN  /\ median_heap' = [median_heap EXCEPT ![model] = fitted]
                    /\ models_preds' =
                          << Some([model |-> model, predictions |-> Predictions(fitted)]) >>
                    /\ median_results' = NoUnits(Len(g.q))
                    /\ median_trained' = [NoTraining EXCEPT ![g.cls[1]] = 1]
                    /\ median_pc' = "aggregations"
    /\ UNCHANGED << median_grid, models, nonMedian >>

\* _delayed_fit_classifier, lines 1404-1412, for the k-th classifier configuration
MedianFitClassifier(k) ==
    /\ median_pc = "classifiers"
    /\ k \in DOMAIN models_preds
    /\ models_preds[k] = NoneVal
    /\ LET model == <<"classifier", median_fits, k>>
           fitted == ClassifierFitPredict(
                         SetParams(median_heap[BaseQuantifier], "cls",
                                   GroupParams(median_grid).cls[k]))
       IN  /\ median_heap' = (model :> fitted) @@ median_heap
           /\ models_preds' = [models_preds EXCEPT ![k] =
                                  Some([model |-> model, predictions |-> Predictions(fitted)])]
           /\ median_trained' = [median_trained EXCEPT
                                    ![GroupParams(median_grid).cls[k]] = @ + 1]
    /\ UNCHANGED << median_grid, median_results, models, median_pc, median_fits, nonMedian >>

\* fit, lines 1432-1447: the first pool has joined, the second call starts
MedianClassifiersJoin ==
    /\ median_pc = "classifiers"
    /\ \A k \in DOMAIN models_preds : models_preds[k] # NoneVal
    /\ median_results' = NoUnits(Len(models_preds) * Len(GroupParams(median_grid).q))
    /\ median_pc' = "aggregations"
    /\ UNCHANGED << median_grid, median_heap, models_preds, models, median_fits,
                    median_trained, nonMedian >>

\* _delayed_fit_aggregation, lines 1414-1420, for the k-th pair of the product
MedianFitAggregation(k) ==
    /\ median_pc = "aggregations"
    /\ k \in DOMAIN median_results
    /\ median_results[k] = NoneVal
    /\ LET setup == Setup(models_preds, GroupParams(median_grid).q, k)
           model == <<"aggregation", median_fits, k>>
           fitted == AggregationFit(
                         SetParams(median_heap[setup.mp[1].model], "q", setup.q),
                         setup.mp[1].predictions)
       IN  /\ median_heap' = (model :> fitted) @@ median_heap
           /\ median_results' = [median_results EXCEPT ![k] = Some(model)]
    /\ UNCHANGED << median_grid, models_preds, models, median_pc, median_fits,
                    median_trained, nonMedian >>

\* _delayed_fit, lines 1396-1402, for the k-th configuration of the full grid
MedianDelayedFit(k) ==
    /\ median_pc = "fitting"
    /\ k \in DOMAIN median_results
    /\ median_results[k] = NoneVal
    /\ LET params == ExpandBoth(median_grid)[k]
           model == <<"model", median_fits, k>>
           copy == SetParams(SetParams(median_heap[BaseQuantifier], "cls", params.cls),
                             "q", params.q)
           fitted == AggregationFit(ClassifierFitPredict(copy), Predictions(copy))
       IN  /\ median_heap' = (model :> fitted) @@ median_heap
           /\ median_results' = [median_results EXCEPT ![k] = Some(model)]
           /\ median_trained' = [median_trained EXCEPT ![params.cls] = @ + 1]
    /\ UNCHANGED << median_grid, models_preds, models, median_pc, median_fits, nonMedian >>

\* fit, lines 1447-1463: the last pool has joined, self.models is assigned
MedianJoin ==
    /\ median_pc \in {"aggregations", "fitting"}
    /\ \A k \in DOMAIN median_results : median_results[k] # NoneVal
    /\ models' = Some([k \in DOMAIN median_results |-> median_results[k][1]])
    /\ median_pc' = "fitted"
    /\ UNCHANGED << median_grid, median_heap, models_preds, median_results, median_fits,
                    median_trained, nonMedian >>

InitMedian ==
    /\ GridAtRest
    /\ EmAtRest
    /\ TsAtRest
    /\ RcAtRest
    /\ MqAtRest
    /\ ThrAtRest
    /\ DmAtRest
    /\ AggAtRest
    /\ OvaAtRest
    /\ QuantifierAtRest
    /\ median_grid \in [aggregative : BOOLEAN, cls : ClsLists, q : QLists]
    /\ median_heap = (BaseQuantifier :> NewQuantifier)
    /\ models_preds = << >>
    /\ median_results = << >>
    /\ models = NoneVal
    /\ median_pc = "idle"
    /\ median_fits = 0
    /\ median_trained = NoTraining

MedianUnits == 1..6

NextMedian ==
    \/ MedianFitStart
    \/ \E k \in MedianUnits : MedianFitClassifier(k)
    \/ MedianClassifiersJoin
    \/ \E k \in MedianUnits : MedianFitAggregation(k)
    \/ \E k \in MedianUnits : MedianDelayedFit(k)
    \/ MedianJoin

SpecMedian == InitMedian /\ [][NextMedian]_vars

\* C11 (as claimed): through every fit, whatever the grid, the object
\* self.base_quantifier keeps the parameters and the unfitted state it was
\* constructed with, and the members of self.models are pairwise distinct
\* objects, none of them self.base_quantifier.
C11_BaseQuantifierUntouched ==
    /\ median_heap[BaseQuantifier] = NewQuantifier
    /\ models # NoneVal =>
          \A i, j \in DOMAIN models[1] :
              /\ models[1][i] # BaseQuantifier
              /\ i # j => models[1][i] # models[1][j]

\* the part of C11 that the code does satisfy: the ensemble members are
\* pairwise distinct deep copies, and with more than one classifier
\* configuration (or a non-aggregative base) the base is not mutated
C11_CopiesWhenSeveralClassifiers ==
    /\ models # NoneVal =>
          \A i, j \in DOMAIN models[1] :
              /\ models[1][i] # BaseQuantifier
              /\ i # j => models[1][i] # models[1][j]
    /\ (~median_grid.aggregative \/ Len(median_grid.cls) > 1) =>
          median_heap[BaseQuantifier] = NewQuantifier

\* the value a parameter has after set_params with one configuration of its
\* group (the constructor's value when the grid does not name it)
ValueOf(params) == IF params = NoneVal THEN 0 ELSE params[1]

\* C25: after fit on an aggregative base, self.models holds one member per
\* point of the grid, in the order of the grid, each with the parameters of
\* its point; classifier training was invoked once per classifier
\* configuration and for nothing else; every member holds the classifier
\* trained with its classifier configuration and was aggregation-fitted on
\* the predictions of that classifier, so members that differ only in the
\* aggregation parameter share both.
C25_OneMemberPerPointOneTrainingPerClassifier ==
    (median_pc = "fitted" /\ median_grid.aggregative) =>
        LET points == ExpandBoth(median_grid)
            member(k) == median_heap[models[1][k]]
        IN  /\ Len(models[1]) = Len(points)
            /\ \A k \in DOMAIN points :
                  /\ member(k).cls = ValueOf(points[k].cls)
                  /\ member(k).q = ValueOf(points[k].q)
                  /\ member(k).classifier = <<"train", ValueOf(points[k].cls)>>
                  /\ member(k).aggregation = Some([by |-> ValueOf(points[k].cls)])
            /\ \A c \in ClsConfigs :
                  median_trained[c] =
                      IF \E k \in DOMAIN points : points[k].cls = c THEN 1 ELSE 0

\* C25 witness: a fitted ensemble over two classifier configurations and two
\* aggregation configurations: four members, two trainings
C25_Witness ==
    /\ median_pc = "fitted"
    /\ median_grid.aggregative
    /\ Len(models[1]) = 4
    /\ median_trained = [NoTraining EXCEPT ![<<1>>] = 1, ![<<2>>] = 1]
    /\ median_heap[models[1][1]].classifier = median_heap[models[1][2]].classifier
    /\ median_heap[models[1][1]].q # median_heap[models[1][2]].q

----------------------------------------------------------------------------
(* AggregativeQuantifier.fit and classifier_fit_predict, aggregative.py    *)
(* lines 53-131, 181-189, 258-276, 289-291, with the aggregation_fit of    *)
(* ACC (349-357), EMQrecalib (595-620) and DyS (750-757), DyS.aggregate    *)

\* the quantifiers: ACC is crisp, EMQrecalib and DyS are soft, DyS is binary
Quantifiers ==
    [kind : {"ACC"}, val_split : {NoneVal, PyInt(5)}, recalib : {NoneVal},
     divergence : {NoneVal}]
    \cup [kind : {"EMQrecalib"}, val_split : {NoneVal, PyInt(5)},
          recalib : {NoneVal, Some("bcts"), Some("foo")}, divergence : {NoneVal}]
    \cup [kind : {"DyS"}, val_split : {NoneVal, PyInt(5)}, recalib : {NoneVal},
          divergence : {Some("HD"), Some("foo")}]

\* the classifier handed to the constructor: with or without the method the
\* quantifier needs, trained outside the quantifier or not
\* fit_on is the part of the data the quantifier has last trained it on
Classifiers ==
    [capable : BOOLEAN, adapter : {NoneVal}, trained : BOOLEAN, fit_on : {NoneVal}]

\* the instances of the data handed to fit, by their position in data.Xy, and
\* the instances of a collection passed as val_split
NInstances == 5
Instances == 1..NInstances
Other == { NInstances + 1 }

\* values of the argument val_split of fit; a float is written in tenths
PredictOns ==
    { NoneVal, Float(0), Float(4), Float(10), PyInt(1), PyInt(5), LabelledCollection,
      <<"str">> }

\* number of classes of the data handed to fit
DataClasses == {2, 3}

IsFloat(v) == Len(v) = 2 /\ v[1] = "float"
IsInt(v) == Len(v) = 2 /\ v[1] = "int"

\* _classifier_method, lines 173-179, 230-237, 248-256
ClassifierMethod(kind) == IF kind = "ACC" THEN "predict" ELSE "predict_proba"

\* BinaryAggregativeQuantifier
BinaryOnly(kind) == kind = "DyS"

\* CalibratedClassifierCV(self.classifier, cv=5), line 272
CalibratedClassifierCV ==
    [capable |-> TRUE, adapter |-> Some(5), trained |-> FALSE, fit_on |-> NoneVal]

\* line 83: the value passed as adapt_if_necessary
AdaptIfNecessary(kind) == ClassifierMethod(kind) = "predict_proba"

\* _check_classifier: lines 181-189 for ACC, lines 258-276 for soft quantifiers
check_classifier(kind, clf, adapt_if_necessary) ==
    IF clf.capable
    THEN [classifier |-> clf, warned |-> 0, error |-> "none"]
    ELSE IF ClassifierMethod(kind) = "predict_proba" /\ adapt_if_necessary
    THEN [classifier |-> CalibratedClassifierCV, warned |-> 1, error |-> "none"]
    ELSE [classifier |-> clf, warned |-> 0, error |-> "AssertionError"]

\* line 95, on a proportion written in tenths
ValidProportionClosed(p) == 0 <= p /\ p <= 10
ValidProportion(p) == 0 < p /\ p < 10

\* data.split_stratified(train_prop=1 - p), line 97: the held-out parts the
\* split can return for a proportion p in tenths, and the part left for training
ValSize(p) == (p * NInstances + 9) \div 10
ValParts(p) == { v \in SUBSET Instances : Cardinality(v) = ValSize(p) }
WholeData(val) == Instances
TrainPart(val) == Instances \ val

\* cross_val_predict(self.classifier, *data.Xy, cv=k), line 116: the fold of
\* the i-th instance, the folds being k runs of consecutive positions
FoldOf(i, k) ==
    LET s == NInstances \div k
        big == NInstances % k
    IN  IF i <= big * (s + 1) THEN ((i - 1) \div (s + 1)) + 1
        ELSE big + ((i - 1 - big * (s + 1)) \div s) + 1
Fold(i, k) == { j \in Instances : FoldOf(j, k) = FoldOf(i, k) }

\* a LabelledCollection of predictions: for each predicted instance the
\* instance whose label it is paired with and the data the predicting model
\* was trained on (NoneVal: trained outside the quantifier)
Predicted(on, X, by) == Some([on |-> on, out |-> [i \in X |-> [y |-> i, by |-> by[i]]]])

\* one step of classifier_fit_predict on the data
Step(op, on) == [op |-> op, on |-> on]

\* classifier_fit_predict, lines 66-131; val is the part held out by line 97
classifier_fit_predict(kind, val_split_, clf, fit_classifier, predict_on_arg, val) ==
    LET chk == check_classifier(kind, clf, AdaptIfNecessary(kind))
        c == chk.classifier
        Fitted(on) == [c EXCEPT !.trained = TRUE, !.fit_on = Some(on)]
        predict_on == IF predict_on_arg = NoneVal THEN val_split_ ELSE predict_on_arg
        Raise(e, cl, n, steps) ==
            [classifier |-> cl, trained |-> n, warned |-> chk.warned,
             predictions |-> NoneVal, error |-> e, steps |-> steps]
        Return(cl, n, preds, steps) ==
            [classifier |-> cl, trained |-> n, warned |-> chk.warned,
             predictions |-> preds, error |-> "none", steps |-> steps]
        \* self.classify(X) on a classifier that may never have been trained
        Classify(cl, n, on, X, steps) ==
            IF cl.trained
            THEN Return(cl, n, Predicted(on, X, [i \in X |-> cl.fit_on]),
                        Append(steps, Step("classify", X)))
            ELSE Raise("NotFittedError", cl, n, steps)
    IN  IF chk.error # "none" THEN Raise(chk.error, c, 0, << >>)
        ELSE IF predict_on = NoneVal
        THEN IF fit_classifier
             THEN Return(Fitted(Instances), 1, NoneVal, << Step("fit", Instances) >>)
             ELSE Return(c, 0, NoneVal, << >>)
        ELSE IF IsFloat(predict_on)
        THEN IF fit_classifier
             THEN IF ~ValidProportion(predict_on[2])
                  THEN Raise("ValueError", c, 0, << >>)
                  ELSE Classify(Fitted(TrainPart(val)), 1, "val", val,
                                << Step("split_stratified", Instances),
                                   Step("fit", TrainPart(val)) >>)
             ELSE Raise("ValueError", c, 0, << >>)
        ELSE IF predict_on = LabelledCollection
        THEN IF fit_classifier
             THEN Classify(Fitted(Instances), 1, "predict_on", Other,
                           << Step("fit", Instances) >>)
             ELSE Classify(c, 0, "predict_on", Other, << >>)
        ELSE IF IsInt(predict_on)
        THEN IF fit_classifier
             THEN IF predict_on[2] <= 1
                  THEN Raise("ValueError", c, 0, << >>)
                  ELSE Return(Fitted(Instances), 2,
                              Predicted("kFCV", Instances,
                                        [i \in Instances |->
                                            Some(Instances \ Fold(i, predict_on[2]))]),
                              << Step("cross_val_predict", Instances),
                                 Step("fit", Instances) >>)
             ELSE Raise("ValueError", c, 0, << >>)
        ELSE Raise("ValueError", c, 0, << >>)

\* names accepted by EMQrecalib.aggregation_fit, lines 598-605
RecalibNames == {"nbvs", "bcts", "ts", "vs"}

\* names accepted by get_divergence
DivergenceNames == {"HD", "topsoe"}

\* aggregation_fit of ACC, EMQrecalib and DyS: all of them read
\* classif_predictions first; EMQrecalib then looks its recalib name up
aggregation_fit(q, predictions) ==
    IF predictions = NoneVal
    THEN [state |-> NoneVal, error |-> "AttributeError"]
    ELSE IF q.kind = "EMQrecalib" /\ q.recalib # NoneVal /\ q.recalib[1] \notin RecalibNames
    THEN [state |-> NoneVal, error |-> "ValueError"]
    ELSE [state |-> Some([kind |-> q.kind, predictions |-> predictions[1]]),
          error |-> "none"]

\* the held-out parts line 97 can draw for the mode of a call: the split is
\* made in the float mode only
Splits(predict_on) ==
    IF IsFloat(predict_on) /\ ValidProportion(predict_on[2])
    THEN ValParts(predict_on[2]) ELSE { {} }

\* fit, lines 53-64, behind BinaryAggregativeQuantifier.fit for DyS
QuantifierFit ==
    /\ ncalls < MaxFits
    /\ \E data \in DataClasses, fit_classifier \in BOOLEAN, val_split \in PredictOns :
       \E val \in Splits(IF val_split = NoneVal THEN quantifier.val_split ELSE val_split) :
          LET cfp == classifier_fit_predict(quantifier.kind, quantifier.val_split,
                                            classifier, fit_classifier, val_split, val)
              agg == aggregation_fit(quantifier, cfp.predictions)
              call == [op |-> "fit", data |-> data, fit_classifier |-> fit_classifier,
                       val_split |-> val_split, before |-> classifier]
          IN  IF BinaryOnly(quantifier.kind) /\ data # 2
              THEN /\ last_call' = Some([call |-> call, trained |-> 0, warned |-> 0,
                                         error |-> "ConfigurationError",
                                         predictions |-> NoneVal, steps |-> << >>])
                   /\ UNCHANGED << classifier, aggregation_, trainings, warnings >>
              ELSE /\ classifier' = cfp.classifier
                   /\ trainings' = trainings + cfp.trained
                   /\ warnings' = warnings + cfp.warned
                   /\ aggregation_' = IF cfp.error = "none" /\ agg.error = "none"
                                      THEN agg.state ELSE aggregation_
                   /\ last_call' = Some([call |-> call, trained |-> cfp.trained,
                                         warned |-> cfp.warned,
                                         error |-> IF cfp.error # "none" THEN cfp.error
                                                   ELSE agg.error,
                                         predictions |-> cfp.predictions,
                                         steps |-> cfp.steps])
    /\ ncalls' = ncalls + 1
    /\ UNCHANGED << quantifier, nonQuant >>

\* aggregate on a fitted quantifier; DyS.aggregate looks its divergence up
\* (line 763) before the search
QuantifierAggregate ==
    /\ ncalls < MaxFits
    /\ aggregation_ # NoneVal
    /\ last_call' =
          Some([call |-> [op |-> "aggregate", data |-> 0, fit_classifier |-> FALSE,
                          val_split |-> NoneVal, before |-> classifier],
                trained |-> 0, warned |-> 0,
                error |-> IF quantifier.kind = "DyS"
                             /\ quantifier.divergence[1] \notin DivergenceNames
                          THEN "ValueError" ELSE "none",
                predictions |-> NoneVal, steps |-> << >>])
    /\ ncalls' = ncalls + 1
    /\ UNCHANGED << quantifier, classifier, aggregation_, trainings, warnings, nonQuant >>

InitQuant ==
    /\ GridAtRest
    /\ EmAtRest
    /\ TsAtRest
    /\ RcAtRest
    /\ MqAtRest
    /\ ThrAtRest
    /\ DmAtRest
    /\ AggAtRest
    /\ OvaAtRest
    /\ MedianAtRest
    /\ quantifier \in Quantifiers
    /\ classifier \in Classifiers
    /\ Unfitted

NextQuant ==
    \/ QuantifierFit
    \/ QuantifierAggregate

SpecQuant == InitQuant /\ [][NextQuant]_vars

\* the last call was a call of fit, and: what it was asked to predict on
LastFit == last_call # NoneVal /\ last_call[1].call.op = "fit"
LastPredictOn ==
    IF last_call[1].call.val_split = NoneVal THEN quantifier.val_split
    ELSE last_call[1].call.val_split

\* the last fit got as far as line 85: the data passed the check of a binary
\* quantifier and the classifier passed (or was adapted by) _check_classifier
ReachedModes ==
    /\ LastFit
    /\ ~(BinaryOnly(quantifier.kind) /\ last_call[1].call.data # 2)
    /\ last_call[1].call.before.capable \/ ClassifierMethod(quantifier.kind) = "predict_proba"

\* the evaluation modes that classifier_fit_predict rejects
RejectedMode ==
    \/ (IsFloat(LastPredictOn) \/ IsInt(LastPredictOn)) /\ ~last_call[1].call.fit_classifier
    \/ IsInt(LastPredictOn) /\ LastPredictOn[2] <= 1
    \/ IsFloat(LastPredictOn) /\ ~(0 < LastPredictOn[2] /\ LastPredictOn[2] < 10)
    \/ LastPredictOn = <<"str">>

\* C12: a call that reaches the evaluation modes with a float or an int while
\* fit_classifier is False, with an int k <= 1, with a float p outside (0,1)
\* or with a specification of another type ends with ValueError, and has not
\* trained the classifier.
C12_BadModeIsValueError ==
    ReachedModes /\ RejectedMode =>
        /\ last_call[1].error = "ValueError"
        /\ last_call[1].trained = 0

\* C12 witness: fit_classifier is True and the proportion is 1.0, or the
\* number of folds is 1: the call has ended with ValueError
C12_Witness ==
    /\ ReachedModes
    /\ last_call[1].call.fit_classifier
    /\ LastPredictOn \in {Float(10), PyInt(1)}
    /\ last_call[1].error = "ValueError"

\* the wrapping is permitted explicitly: the message of lines 274-276 names
\* fit_classifier as the argument that allows the calibration
Permitted == last_call[1].call.fit_classifier

\* C13 (as claimed): when fit is called on a soft quantifier whose classifier
\* has no predict_proba, the call fails and leaves the classifier alone
\* unless the wrapping was permitted; when permitted the classifier has been
\* replaced by a 5-fold calibration adapter and a warning was printed.
C13_WrapOnlyWhenPermitted ==
    ( /\ LastFit
      /\ ClassifierMethod(quantifier.kind) = "predict_proba"
      /\ ~(BinaryOnly(quantifier.kind) /\ last_call[1].call.data # 2)
      /\ ~last_call[1].call.before.capable )
    => IF Permitted
       THEN /\ classifier.adapter = Some(5)
            /\ last_call[1].warned = 1
       ELSE /\ last_call[1].error # "none"
            /\ classifier = last_call[1].call.before

\* the part of C13 that the code does satisfy: the classifier of a soft
\* quantifier is replaced only by the 5-fold adapter, only when it lacks
\* predict_proba, and always with a warning
C13_AdapterIsFiveFold ==
    /\ classifier.adapter \in {NoneVal, Some(5)}
    /\ LastFit /\ last_call[1].warned = 1 =>
          /\ ~last_call[1].call.before.capable
          /\ ClassifierMethod(quantifier.kind) = "predict_proba"
          /\ classifier.adapter = Some(5)

IsConfigurationError(e) == e \in {"ValueError", "ConfigurationError"}

\* C14 (as claimed): a fit that ends with a configuration error has not
\* invoked the training of the classifier, and a quantifier constructed with
\* an invalid recalibration or divergence name has its fit end with an error.
C14_ConfigErrorBeforeTraining ==
    LastFit =>
        /\ IsConfigurationError(last_call[1].error) => last_call[1].trained = 0
        /\ ( \/ quantifier.kind = "EMQrecalib" /\ quantifier.recalib # NoneVal
                  /\ quantifier.recalib[1] \notin RecalibNames
             \/ quantifier.kind = "DyS" /\ quantifier.divergence[1] \notin DivergenceNames )
           => last_call[1].error # "none"

\* the part of C14 that the code does satisfy: the errors raised for the
\* data of a binary quantifier and for the evaluation mode come before any
\* training, and no call trains the classifier more than once besides the
\* cross-validation
C14_ModeErrorsBeforeTraining ==
    LastFit =>
        /\ last_call[1].trained <= 2
        /\ (ReachedModes /\ RejectedMode) \/ last_call[1].error = "ConfigurationError"
              => /\ last_call[1].trained = 0
                 /\ IsConfigurationError(last_call[1].error)

\* the last fit ran classifier_fit_predict in the k-fold mode, k > 1, or in
\* the float mode with a proportion in (0,1), with fit_classifier True
KFoldMode ==
    /\ ReachedModes /\ last_call[1].call.fit_classifier
    /\ IsInt(LastPredictOn) /\ LastPredictOn[2] > 1
FloatMode ==
    /\ ReachedModes /\ last_call[1].call.fit_classifier
    /\ IsFloat(LastPredictOn) /\ ValidProportion(LastPredictOn[2])

\* the instances predicted on, and the step at which an operation was done
PredictedOn == DOMAIN last_call[1].predictions[1].out
StepOf(op) == CHOOSE n \in 1..Len(last_call[1].steps) : last_call[1].steps[n].op = op

\* C26: in the k-fold mode with fit_classifier True the cross-validated
\* predictions are generated first, one per training instance, each paired
\* with the label of its own instance and made by a model that has not seen
\* the instance, and the classifier is refitted on the whole data only
\* afterwards, so that on return it is trained on all the data; in the float
\* mode the classifier on return is trained on the part of the data disjoint
\* from the held-out part it has predicted on.
C26_KFoldThenRefitFloatDisjoint ==
    /\ KFoldMode =>
          /\ last_call[1].steps =
                << Step("cross_val_predict", Instances), Step("fit", Instances) >>
          /\ PredictedOn = Instances
          /\ \A i \in Instances :
                /\ last_call[1].predictions[1].out[i].y = i
                /\ i \notin last_call[1].predictions[1].out[i].by[1]
          /\ classifier.trained /\ classifier.fit_on = Some(Instances)
    /\ FloatMode =>
          /\ classifier.trained /\ classifier.fit_on # NoneVal
          /\ classifier.fit_on[1] \cap PredictedOn = {}
          /\ classifier.fit_on[1] \cup PredictedOn = Instances
          /\ PredictedOn # {} /\ classifier.fit_on[1] # {}
          /\ \A i \in PredictedOn :
                last_call[1].predictions[1].out[i] = [y |-> i, by |-> classifier.fit_on]
          /\ StepOf("fit") < StepOf("classify")

\* C26 witness: a fit in the 5-fold mode has returned after a fit in the
\* float mode on the same quantifier
C26_Witness ==
    /\ KFoldMode /\ LastPredictOn = PyInt(5)
    /\ ncalls = 2
    /\ classifier.fit_on = Some(Instances)
    /\ last_call[1].call.before.fit_on # NoneVal
    /\ last_call[1].call.before.fit_on[1] # Instances

\* C26 witness of the float mode: two instances are held out, three trained on
C26_FloatWitness ==
    /\ FloatMode
    /\ Cardinality(PredictedOn) = 2
    /\ Cardinality(classifier.fit_on[1]) = 3

----------------------------------------------------------------------------
(* Floating point: numpy float64 with the mantissa shortened to            *)
(* MantissaBits bits; every operation rounds its exact result to nearest,  *)
(* ties to even; a division by zero gives inf or nan, as numpy does        *)

MantissaBits == 4
MaxCount == 3        \* instances of one kind (true class, prediction) in a sample

Abs(n) == IF n < 0 THEN -n ELSE n
Sgn(n) == IF n < 0 THEN -1 ELSE IF n > 0 THEN 1 ELSE 0
Min(a, b) == IF a < b THEN a ELSE b

\* the float m * 2^e, normalized: 2^(MantissaBits-1) <= |m| < 2^MantissaBits
Num(m, e) == [k |-> "num", m |-> m, e |-> e]
Zero == Num(0, 0)
One == Num(2^(MantissaBits - 1), -(MantissaBits - 1))
NaN == [k |-> "nan", m |-> 0, e |-> 0]
Inf(s) == [k |-> "inf", m |-> s, e |-> 0]

\* the float nearest to (n / d) * 2^e, for d > 0
RECURSIVE Round(_, _, _)
Round(n, d, e) ==
    IF n = 0 THEN Zero
    ELSE IF Abs(n) < 2^(MantissaBits - 1) * d THEN Round(2 * n, d, e - 1)
    ELSE IF Abs(n) >= 2^MantissaBits * d THEN Round(n, 2 * d, e + 1)
    ELSE LET f == Abs(n) \div d
             r == Abs(n) % d
             g == IF 2 * r > d \/ (2 * r = d /\ f % 2 = 1) THEN f + 1 ELSE f
         IN  IF g = 2^MantissaBits
             THEN Num(Sgn(n) * 2^(MantissaBits - 1), e + 1)
             ELSE Num(Sgn(n) * g, e)

FNeg(x) == [x EXCEPT !.m = -x.m]

FMul(x, y) == Round(x.m * y.m, 1, x.e + y.e)

FSub(x, y) ==
    IF y.m = 0 THEN x
    ELSE IF x.m = 0 THEN FNeg(y)
    ELSE LET e == Min(x.e, y.e)
         IN  Round(x.m * 2^(x.e - e) - y.m * 2^(y.e - e), 1, e)

FAdd(x, y) == FSub(x, FNeg(y))

\* x / y on numpy floats: nan for 0/0, inf for a division of a non-zero by zero
FDiv(x, y) ==
    IF x.k = "nan" \/ y.k = "nan" THEN NaN
    ELSE IF y.m = 0 THEN (IF x.m = 0 THEN NaN ELSE Inf(Sgn(x.m)))
    ELSE Round(x.m * Sgn(y.m), Abs(y.m), x.e - y.e)

\* x < y for finite floats
FLess(x, y) == FSub(x, y).m < 0

\* np.clip(x, 0, 1): nan stays nan
Clip(x) ==
    IF x.k = "nan" THEN NaN
    ELSE IF x.k = "inf" THEN (IF x.m > 0 THEN One ELSE Zero)
    ELSE IF x.m <= 0 THEN Zero
    ELSE IF FLess(One, x) THEN One
    ELSE x

----------------------------------------------------------------------------
(* ACC and PACC (lines 349-396, 442-467) and SMM (lines 788-802), for two  *)
(* classes                                                                 *)

Classes == 1..2

\* confusion_matrix(y, y_, labels=classes).T: entry [i][j] counts the
\* evaluation instances of true class j that were predicted as class i
Confusions == [Classes -> [Classes -> 0..MaxCount]]

\* ACC.getPteCondEstim, lines 359-371
\* line 368 on a column without instances: conf[i, i] = 1, the rest stays 0.0
EmptyColumnLeftZero(conf, i, j) == Round(conf[i][j], 1, 0)
EmptyColumn(conf, i, j) == IF i = j THEN One ELSE Round(conf[i][j], 1, 0)

AccPteCondEstim(conf) ==
    LET class_counts == [j \in Classes |-> conf[1][j] + conf[2][j]]
    IN  [i \in Classes |-> [j \in Classes |->
            IF class_counts[j] = 0 THEN EmptyColumn(conf, i, j)
            ELSE Round(conf[i][j], class_counts[j], 0)]]

\* posteriors of class 1 of the evaluation instances, in quarters, grouped
\* by true label (the posterior of class 2 is the complement)
Quarters == 0..4
PosteriorLists == { << >> } \cup { <<a>> : a \in Quarters }
                    \cup { <<a, b>> : a \in Quarters, b \in Quarters }

RECURSIVE SumSeq(_)
SumSeq(s) == IF s = << >> THEN 0 ELSE Head(s) + SumSeq(Tail(s))

\* y_[idx].mean(axis=0) over posterior rows (a/4, 1 - a/4)
MeanPosterior(rows) ==
    << Round(SumSeq(rows), 4 * Len(rows), 0),
       Round(4 * Len(rows) - SumSeq(rows), 4 * Len(rows), 0) >>

\* PACC.getPteCondEstim, lines 456-467
PaccPteCondEstim(posteriors) ==
    LET confusion == [j \in Classes |->
            IF posteriors[j] # << >> THEN MeanPosterior(posteriors[j])
            ELSE [i \in Classes |-> IF i = j THEN One ELSE Zero]]
    IN  [i \in Classes |-> [j \in Classes |-> confusion[j][i]]]

\* np.linalg.solve(A, B): LU factorization with partial pivoting, then the
\* two substitutions; LinAlgError exactly when a pivot is exactly zero
LinalgSolve(A, B) ==
    LET r == IF FLess(A[1][1], A[2][1]) THEN 2 ELSE 1
        o == 3 - r
        pivot == A[r][1]
        m == FDiv(A[o][1], pivot)
        u12 == A[r][2]
        u22 == FSub(A[o][2], FMul(m, u12))
        y2 == FSub(B[o], FMul(m, B[r]))
        x2 == FDiv(y2, u22)
        x1 == FDiv(FSub(B[r], FMul(u12, x2)), pivot)
    IN  IF pivot.m = 0 \/ u22.m = 0 THEN NoneVal ELSE Some(<< x1, x2 >>)

\* ACC.solve_adjustment, lines 377-396
ClipSolution(x) == [i \in Classes |-> Clip(x[i])]
solve_adjustment(PteCondEstim, prevs) ==
    LET solved == LinalgSolve(PteCondEstim, prevs)
    IN  IF solved = NoneVal THEN prevs
        ELSE LET clipped == ClipSolution(solved[1])
                 total == FAdd(clipped[1], clipped[2])
             IN  [i \in Classes |-> FDiv(clipped[i], total)]

\* F.prevalence_from_labels / prevalence_from_probabilities on a non-empty
\* sample: the share of each class among n[1] + n[2]
RawPrevalence(n) == [i \in Classes |-> Round(n[i], n[1] + n[2], 0)]

\* F.as_binary_prevalence(p, clip_if_necessary=True)
AsBinaryPrevalence(p) ==
    LET c == Clip(p)
    IN  IF c.k = "nan" THEN << NaN, NaN >> ELSE << FSub(One, c), c >>

\* np.mean of a non-empty list of posteriors given in quarters
MeanOf(rows) == Round(SumSeq(rows), 4 * Len(rows), 0)

\* SMM.aggregate, lines 797-802
SmmAggregate(means, Px) ==
    AsBinaryPrevalence(FDiv(FSub(MeanOf(Px), means.Pxy0_mean),
                            FSub(means.Pxy1_mean, means.Pxy0_mean)))

NonEmptyLists == PosteriorLists \ { << >> }

\* ACC.aggregation_fit, lines 349-357
AccAggregationFit ==
    /\ agg_kind = "ACC"
    /\ fitted_ = NoneVal
    /\ \E conf \in Confusions :
          /\ val_preds' = Some(conf)
          /\ fitted_' = Some(AccPteCondEstim(conf))
    /\ UNCHANGED << agg_kind, prevs_estim, adjusted_prevs, nonAgg >>

\* PACC.aggregation_fit, lines 442-450
PaccAggregationFit ==
    /\ agg_kind = "PACC"
    /\ fitted_ = NoneVal
    /\ \E posteriors \in [Classes -> PosteriorLists] :
          /\ val_preds' = Some(posteriors)
          /\ fitted_' = Some(PaccPteCondEstim(posteriors))
    /\ UNCHANGED << agg_kind, prevs_estim, adjusted_prevs, nonAgg >>

\* SMM.aggregation_fit, lines 788-795; class 1 is neg_label, class 2 pos_label,
\* the lists hold the posteriors of pos_label
SmmAggregationFit ==
    /\ agg_kind = "SMM"
    /\ fitted_ = NoneVal
    /\ \E posteriors \in [Classes -> NonEmptyLists] :
          /\ val_preds' = Some(posteriors)
          /\ fitted_' = Some([Pxy1_mean |-> MeanOf(posteriors[2]),
                               Pxy0_mean |-> MeanOf(posteriors[1])])
    /\ UNCHANGED << agg_kind, prevs_estim, adjusted_prevs, nonAgg >>

\* ACC.aggregate, lines 373-375, and PACC.aggregate, lines 452-454, on a
\* sample with n[i] instances (or posterior mass) attributed to class i
AdjustedAggregate ==
    /\ agg_kind \in {"ACC", "PACC"}
    /\ fitted_ # NoneVal
    /\ \E n \in [Classes -> 0..MaxCount] :
          /\ n[1] + n[2] > 0
          /\ prevs_estim' = Some(RawPrevalence(n))
          /\ adjusted_prevs' = Some(solve_adjustment(fitted_[1], RawPrevalence(n)))
    /\ UNCHANGED << agg_kind, val_preds, fitted_, nonAgg >>

\* SMM.aggregate, lines 797-802; prevs_estim keeps Px_mean
SmmAggregateCall ==
    /\ agg_kind = "SMM"
    /\ fitted_ # NoneVal
    /\ \E Px \in NonEmptyLists :
          /\ prevs_estim' = Some(<< MeanOf(Px) >>)
          /\ adjusted_prevs' = Some(SmmAggregate(fitted_[1], Px))
    /\ UNCHANGED << agg_kind, val_preds, fitted_, nonAgg >>

InitAgg ==
    /\ GridAtRest
    /\ EmAtRest
    /\ TsAtRest
    /\ RcAtRest
    /\ MqAtRest
    /\ ThrAtRest
    /\ DmAtRest
    /\ OvaAtRest
    /\ MedianAtRest
    /\ QuantifierAtRest
    /\ agg_kind \in {"ACC", "PACC", "SMM"}
    /\ AggUnfitted

NextAgg ==
    \/ AccAggregationFit
    \/ PaccAggregationFit
    \/ SmmAggregationFit
    \/ AdjustedAggregate
    \/ SmmAggregateCall

SpecAgg == InitAgg /\ [][NextAgg]_vars

\* exact arithmetic on floats, for stating the properties: x as a multiple of 2^e
Scaled(x, e) == IF x.m = 0 THEN 0 ELSE x.m * 2^(x.e - e)
LowExp(a, b) ==
    Min(Min(IF a.m = 0 THEN 0 ELSE a.e, IF b.m = 0 THEN 0 ELSE b.e), One.e)

\* a + b = 1 up to the rounding of the two entries (one unit in the last
\* place of 1.0)
SumsToOne(a, b) ==
    LET e == LowExp(a, b)
    IN  Abs(Scaled(a, e) + Scaled(b, e) - 2^(-e)) <= 2^(-(MantissaBits - 1) - e)

InUnit(x) == x.k = "num" /\ x.m >= 0 /\ ~FLess(One, x)

ValidPrevalence(v) ==
    /\ \A i \in DOMAIN v : InUnit(v[i])
    /\ SumsToOne(v[1], v[2])

\* the determinant of the matrix of floats is exactly zero
Singular(A) ==
    LET e1 == A[1][1].e + A[2][2].e
        e2 == A[1][2].e + A[2][1].e
        e == Min(e1, e2)
    IN  A[1][1].m * A[2][2].m * 2^(e1 - e) = A[1][2].m * A[2][1].m * 2^(e2 - e)

Adjusted == agg_kind \in {"ACC", "PACC"}

\* C15 (as claimed): every prevalence vector returned by aggregate has its
\* entries in [0,1] and sums to 1, also when the confusion matrix is singular
\* or has an empty column and when the class-conditional means are equal.
C15_PrevalenceValid ==
    adjusted_prevs # NoneVal => ValidPrevalence(adjusted_prevs[1])

\* the part of C15 that the code does satisfy: what ACC and PACC return is a
\* prevalence vector, whatever the confusion matrix
C15_AdjustedCountValid ==
    Adjusted /\ adjusted_prevs # NoneVal => ValidPrevalence(adjusted_prevs[1])

\* C16 (as claimed): on a singular matrix solve_adjustment returns exactly
\* the raw estimate it was given; on a non-singular one it returns entries
\* in [0,1] that sum to 1.
C16_SingularGivesRaw ==
    Adjusted /\ adjusted_prevs # NoneVal =>
        IF Singular(fitted_[1]) THEN adjusted_prevs = prevs_estim
        ELSE ValidPrevalence(adjusted_prevs[1])

\* the part of C16 that the code does satisfy: solve_adjustment never
\* raises, it returns the raw estimate when the factorization meets a pivot
\* that is exactly zero, and only a singular matrix can give such a pivot
\* in the first column
C16_ZeroPivotGivesRaw ==
    Adjusted /\ adjusted_prevs # NoneVal =>
        /\ LinalgSolve(fitted_[1], prevs_estim[1]) = NoneVal => adjusted_prevs = prevs_estim
        /\ ~Singular(fitted_[1]) => ValidPrevalence(adjusted_prevs[1])

\* class j has no evaluation instance
NoInstance(j) ==
    IF agg_kind = "ACC" THEN val_preds[1][1][j] + val_preds[1][2][j] = 0
    ELSE val_preds[1][j] = << >>

\* C17: every column of Pte_cond_estim_ has entries in [0,1] that sum to 1,
\* and the column of a class without evaluation instances is 1 on the
\* diagonal and 0 elsewhere.
C17_ColumnStochastic ==
    Adjusted /\ fitted_ # NoneVal =>
        \A j \in Classes :
            /\ InUnit(fitted_[1][1][j]) /\ InUnit(fitted_[1][2][j])
            /\ SumsToOne(fitted_[1][1][j], fitted_[1][2][j])
            /\ NoInstance(j) => /\ fitted_[1][j][j] = One
                                /\ fitted_[1][3 - j][j] = Zero

\* C17 witness: ACC fitted on predictions with no instance of class 1 and
\* three instances of class 2, one of them predicted as class 1
C17_Witness ==
    /\ agg_kind = "ACC"
    /\ fitted_ # NoneVal
    /\ NoInstance(1)
    /\ val_preds[1][1][2] = 1
    /\ val_preds[1][2][2] = 2
    /\ fitted_[1][1][1] = One

----------------------------------------------------------------------------
(* EMQ.EM, aggregative.py lines 506-542 *)

MAX_ITER == 1000
MinIter == 10

\* line 525: the condition of the while loop
LoopContinuesNoCap(c, n) == ~c
LoopContinues(c, n) == ~c /\ n < MAX_ITER

\* line 533: the floor on s
FloorAtLeast(n) == n >= MinIter
Floor(n) == n > MinIter

\* lines 519-524
EmStart ==
    /\ em_pc = "idle"
    /\ em_s' = 0
    /\ converged' = FALSE
    /\ qs_prev_' = NoneVal
    /\ qs' = 0
    /\ em_pc' = "loop"
    /\ UNCHANGED << em_below, em_warned, nonEm >>

\* lines 526-537, one iteration; below is the outcome of
\* qp.error.mae(qs, qs_prev_) < epsilon, evaluated only when qs_prev_ is set
EmIterate ==
    /\ em_pc = "loop"
    /\ LoopContinues(converged, em_s)
    /\ \E below \in BOOLEAN :
          /\ em_below' = (qs_prev_ # NoneVal /\ below)
          /\ converged' = (qs_prev_ # NoneVal /\ below /\ Floor(em_s))
    /\ qs' = em_s + 1
    /\ qs_prev_' = Some(em_s + 1)
    /\ em_s' = em_s + 1
    /\ UNCHANGED << em_warned, em_pc, nonEm >>

\* lines 539-542: the loop has ended
EmReturn ==
    /\ em_pc = "loop"
    /\ ~LoopContinues(converged, em_s)
    /\ em_warned' = ~converged
    /\ em_pc' = "returned"
    /\ UNCHANGED << em_s, converged, qs_prev_, qs, em_below, nonEm >>

InitEm ==
    /\ GridAtRest
    /\ OvaAtRest
    /\ MedianAtRest
    /\ QuantifierAtRest
    /\ AggAtRest
    /\ TsAtRest
    /\ RcAtRest
    /\ MqAtRest
    /\ ThrAtRest
    /\ DmAtRest
    /\ EmAtRest

NextEm ==
    \/ EmStart
    \/ EmIterate
    \/ EmReturn

SpecEm == InitEm /\ [][NextEm]_vars

\* C18: EM never does more than MAX_ITER iterations; when it has returned,
\* the warning was printed exactly if the loop ended at the cap with
\* convergence not declared, and the estimate returned is the one computed
\* by the last iteration.
C18_CapAndWarning ==
    /\ em_s <= MAX_ITER
    /\ em_pc = "returned" =>
          /\ em_warned <=> (em_s = MAX_ITER /\ ~converged)
          /\ converged \/ em_s = MAX_ITER
          /\ qs = em_s

\* C18 witness: EM has returned after MAX_ITER iterations without
\* convergence, with the warning
C18_Witness ==
    /\ em_pc = "returned"
    /\ em_s = MAX_ITER
    /\ ~converged
    /\ em_warned
    /\ qs = MAX_ITER

\* C19 (as claimed): convergence is declared by the first iteration that
\* finds the change below the tolerance when at least 10 iterations have
\* elapsed, and by no earlier one.
C19_StopsAtTenElapsed ==
    em_s >= 1 => (converged <=> (em_below /\ em_s - 1 >= 10))

\* C19 (amended): convergence is declared by the first iteration that finds
\* the change below the tolerance when more than 10 iterations have elapsed
\* (s > 10: the 12th iteration at the earliest), and by no earlier one.
C19_StopsAfterFloor ==
    em_s >= 1 => (converged <=> (em_below /\ em_s - 1 > 10))

\* C19 witness: the change was below the tolerance in the 12th iteration,
\* which declared convergence, and EM has returned
C19_Witness ==
    /\ em_pc = "returned"
    /\ converged
    /\ em_below
    /\ em_s = 12

----------------------------------------------------------------------------
(* DyS._ternary_search, aggregative.py lines 734-748, as called by         *)
(* DyS.aggregate (line 769) with left=0, right=1                           *)

MuDen == 10          \* the minimizer of f is a multiple of 1/MuDen
MaxSlope == 2        \* steepness of f on either side of its minimizer
TolDen == 32         \* tol ranges over the floats k/TolDen, 0 < k <= TolDen

\* the unimodal functions searched: f(x) = down * (mu/MuDen - x) below the
\* minimizer and up * (x - mu/MuDen) above it
Unimodal == [mu : 0..MuDen, down : 1..MaxSlope, up : 1..MaxSlope]

Tolerances == { Round(k, TolDen, 0) : k \in 1..TolDen }

Three == Round(3, 1, 0)
Two == Round(2, 1, 0)

FAbs(x) == [x EXCEPT !.m = Abs(x.m)]

\* the exponent to which x, y and 1/MuDen-free integers are scaled
ScaleExp(x, y) ==
    Min(Min(IF x.m = 0 THEN 0 ELSE x.e, IF y.m = 0 THEN 0 ELSE y.e), 0)

\* f(x) * MuDen * 2^(-e), an integer, for a float x with exponent >= e
FScaled(f, x, e) ==
    LET X == MuDen * Scaled(x, e)
        M == f.mu * 2^(-e)
    IN  IF X < M THEN f.down * (M - X) ELSE f.up * (X - M)

\* line 742: f(left_third) > f(right_third), f evaluated exactly
FGreater(f, x, y) ==
    LET e == ScaleExp(x, y) IN FScaled(f, x, e) > FScaled(f, y, e)

\* line 738: abs(right - left) >= tol
Wide(l, r, tol) == ~FLess(FAbs(FSub(r, l)), tol)

\* lines 739-745: one iteration, from the bounds <<l, r>> to the new bounds
Narrowed(f, l, r) ==
    LET left_third == FAdd(l, FDiv(FSub(r, l), Three))
        right_third == FSub(r, FDiv(FSub(r, l), Three))
    IN  IF FGreater(f, left_third, right_third)
        THEN << left_third, r >>
        ELSE << l, right_third >>

\* line 748
Midpoint(l, r) == FDiv(FAdd(l, r), Two)

\* the call of line 769
TsCall ==
    /\ ts_pc = "idle"
    /\ ts_f' \in Unimodal
    /\ ts_tol' \in Tolerances
    /\ left' = Some(Zero)
    /\ right' = Some(One)
    /\ ts_pc' = "loop"
    /\ UNCHANGED << ts_result, nonTs >>

\* lines 738-745: one iteration of the while loop
TsIterate ==
    /\ ts_pc = "loop"
    /\ Wide(left[1], right[1], ts_tol)
    /\ left' = Some(Narrowed(ts_f, left[1], right[1])[1])
    /\ right' = Some(Narrowed(ts_f, left[1], right[1])[2])
    /\ UNCHANGED << ts_f, ts_tol, ts_result, ts_pc, nonTs >>

\* lines 738 and 748: the loop has ended
TsReturn ==
    /\ ts_pc = "loop"
    /\ ~Wide(left[1], right[1], ts_tol)
    /\ ts_result' = Some(Midpoint(left[1], right[1]))
    /\ ts_pc' = "returned"
    /\ UNCHANGED << ts_f, ts_tol, left, right, nonTs >>

InitTs ==
    /\ GridAtRest
    /\ OvaAtRest
    /\ MedianAtRest
    /\ QuantifierAtRest
    /\ AggAtRest
    /\ EmAtRest
    /\ TsAtRest
    /\ RcAtRest
    /\ MqAtRest
    /\ ThrAtRest
    /\ DmAtRest

NextTs ==
    \/ TsCall
    \/ TsIterate
    \/ TsReturn

SpecTs == InitTs /\ [][NextTs]_vars

\* x <= mu/MuDen, mu/MuDen <= x, and |x - mu/MuDen| < tol, exactly
AtMostMu(f, x) ==
    LET e == ScaleExp(x, x) IN MuDen * Scaled(x, e) <= f.mu * 2^(-e)
AtLeastMu(f, x) ==
    LET e == ScaleExp(x, x) IN MuDen * Scaled(x, e) >= f.mu * 2^(-e)
WithinTol(f, x, tol) ==
    LET e == ScaleExp(x, tol)
    IN  Abs(MuDen * Scaled(x, e) - f.mu * 2^(-e)) < MuDen * Scaled(tol, e)

\* the minimizer lies in the current interval, and a returned value is within
\* tol of it, the interval being narrower than tol
Bracketed ==
    /\ ts_pc # "idle" =>
          /\ AtMostMu(ts_f, left[1])
          /\ AtLeastMu(ts_f, right[1])
    /\ ts_pc = "returned" =>
          /\ ~Wide(left[1], right[1], ts_tol)
          /\ WithinTol(ts_f, ts_result[1], ts_tol)

\* the loop is at bounds that its next iteration leaves as they are
Stuck ==
    /\ ts_pc = "loop"
    /\ Wide(left[1], right[1], ts_tol)
    /\ Narrowed(ts_f, left[1], right[1]) = << left[1], right[1] >>

\* the distance from 1.0 to the next float, twice the spacing of the floats
\* of [1/2, 1)
Epsilon == Round(1, 1, -(MantissaBits - 1))

\* C20 (as claimed): for every tol > 0 the minimizer stays inside the current
\* interval at every iteration, the search ends (no iteration leaves an
\* interval of width >= tol as it was), and the value returned is within tol
\* of the minimizer.
C20_ReturnsWithinTol ==
    /\ Bracketed
    /\ ~Stuck

\* C20, what holds: the same, for every tol larger than the distance from
\* 1.0 to the next float.
C20_ReturnsWithinTolAboveEpsilon ==
    (ts_pc # "idle" /\ FLess(Epsilon, ts_tol)) =>
        /\ Bracketed
        /\ ~Stuck

\* a search with such a tol that returned after more than one iteration
C20_Returned ==
    /\ ts_pc = "returned"
    /\ FLess(Epsilon, ts_tol)
    /\ left[1] # Zero
    /\ right[1] # One

\* the minimizer has left the interval
C20_Lost ==
    /\ ts_pc = "loop"
    /\ ~(AtMostMu(ts_f, left[1]) /\ AtLeastMu(ts_f, right[1]))

\* a value was returned that is not within tol of the minimizer
C20_Far ==
    /\ ts_pc = "returned"
    /\ ~WithinTol(ts_f, ts_result[1], ts_tol)

----------------------------------------------------------------------------
(* Histograms of HDy (lines 651-708), DyS (lines 750-770) and DMy (lines   *)
(* 844-906). A histogram is kept exactly: entry i is num[i] / den.         *)

NBinCounts == 2      \* HDy tries the bin counts 10, 20, .. 10 * NBinCounts
n_bins == 8          \* default of DyS.__init__ and of DMy.__init__ (nbins)
PrevSteps == 4       \* mixture weights are the multiples of 1 / PrevSteps

\* self.bins of HDy (line 668), the single n_bins of DyS, nbins of DMy
BinCounts(q) ==
    IF q.kind = "HDy" THEN { 10 * k : k \in 1..NBinCounts } ELSE { n_bins }

\* samples of posteriors P(y=+1|x), in quarters; a histogram does not
\* depend on the order of the sample
Samples == { <<a>> : a \in Quarters }
            \cup { <<a, b>> : a \in Quarters, b \in Quarters }
DmSamples == { P \in Samples : Len(P) = 1 \/ P[1] <= P[2] }

\* np.histogram(P, bins=b, range=(0, 1))[0]: the bin of a/4 among b bins of
\* equal width, the last one closed on the right
BinOf(a, b) == IF a = 4 THEN b ELSE ((a * b) \div 4) + 1
Counts(P, b) ==
    [i \in 1..b |-> Cardinality({ j \in 1..Len(P) : BinOf(P[j], b) = i })]

Hist(num, den) == [num |-> num, den |-> den]

\* np.histogram(P, bins=b, range=(0, 1), density=True)[0]:
\* count / (len(P) * bin width)
Density(P, b) ==
    LET c == Counts(P, b) IN Hist([i \in 1..b |-> c[i] * b], Len(P))

RECURSIVE SumFirst(_, _)
SumFirst(num, n) == IF n = 0 THEN 0 ELSE num[n] + SumFirst(num, n - 1)

\* h / h.sum()
OverSum(h) == Hist(h.num, SumFirst(h.num, Len(h.num)))

\* hist of lines 670-672 (HDy.aggregation_fit)
HdyHist(P, b) == OverSum(Density(P, b))

\* the histogram HDy.aggregate builds for the sample, line 694
HdyTest(P, b) == Density(P, b)

\* DMy._get_distributions on a binary problem, lines 844-858
GetDistributions(P, b, cdf) ==
    LET c == Counts(P, b)
    IN  IF cdf THEN Hist([i \in 1..b |-> SumFirst(c, i)], Len(P))
        ELSE Hist(c, Len(P))

\* the histogram built at aggregation_fit for the instances of one class
ReferenceHist(q, P, b) ==
    CASE q.kind = "HDy" -> HdyHist(P, b)
      [] q.kind = "DyS" -> Density(P, b)
      [] q.kind = "DMy" -> GetDistributions(P, b, q.cdf)

\* the histogram built at aggregate for the sample
TestHist(q, P, b) ==
    CASE q.kind = "HDy" -> HdyTest(P, b)
      [] q.kind = "DyS" -> Density(P, b)
      [] q.kind = "DMy" -> GetDistributions(P, b, q.cdf)

DmQuantifiers ==
    { [kind |-> "HDy", cdf |-> FALSE], [kind |-> "DyS", cdf |-> FALSE],
      [kind |-> "DMy", cdf |-> FALSE], [kind |-> "DMy", cdf |-> TRUE] }

\* __init__ followed by aggregation_fit on predictions with instances of
\* both classes
DmAggregationFit ==
    /\ dm_pc = "idle"
    /\ \E q \in DmQuantifiers, Pxy1 \in DmSamples, Pxy0 \in DmSamples :
          /\ dm_quantifier' = q
          /\ dm_reference' = Some([b \in BinCounts(q) |->
                 [Pxy1_density |-> ReferenceHist(q, Pxy1, b),
                  Pxy0_density |-> ReferenceHist(q, Pxy0, b)]])
    /\ dm_pc' = "fitted"
    /\ UNCHANGED << dm_test, nonDm >>

\* aggregate on a non-empty sample: the histograms of the sample
DmAggregate ==
    /\ dm_pc = "fitted"
    /\ \E Px \in DmSamples :
          dm_test' = Some([b \in BinCounts(dm_quantifier) |->
                              TestHist(dm_quantifier, Px, b)])
    /\ dm_pc' = "aggregated"
    /\ UNCHANGED << dm_quantifier, dm_reference, nonDm >>

InitDm ==
    /\ GridAtRest
    /\ OvaAtRest
    /\ MedianAtRest
    /\ QuantifierAtRest
    /\ AggAtRest
    /\ EmAtRest
    /\ TsAtRest
    /\ RcAtRest
    /\ MqAtRest
    /\ ThrAtRest
    /\ DmAtRest

NextDm ==
    \/ DmAggregationFit
    \/ DmAggregate

SpecDm == InitDm /\ [][NextDm]_vars

\* total mass of a histogram as a fraction << numerator, denominator >>: the
\* sum of the entries, or the last entry of a cumulative one
Mass(h, cdf) ==
    << IF cdf THEN h.num[Len(h.num)] ELSE SumFirst(h.num, Len(h.num)), h.den >>
SameFraction(x, y) == x[1] * y[2] = y[1] * x[2]

\* prev * Pxy1_density + (1 - prev) * Pxy0_density for prev = k / PrevSteps
Mixture(r, k) ==
    Hist([i \in 1..Len(r.Pxy1_density.num) |->
             k * r.Pxy1_density.num[i] * r.Pxy0_density.den
             + (PrevSteps - k) * r.Pxy0_density.num[i] * r.Pxy1_density.den],
         PrevSteps * r.Pxy1_density.den * r.Pxy0_density.den)

\* the histogram of the sample has as many bins and the same total mass as
\* every mixture of the two reference histograms
Matching(q, reference, test) ==
    \A b \in BinCounts(q) : \A k \in 0..PrevSteps :
        /\ Len(test[b].num) = Len(Mixture(reference[b], k).num)
        /\ SameFraction(Mass(test[b], q.cdf), Mass(Mixture(reference[b], k), q.cdf))

\* C21: for HDy, DyS and DMy the histogram built for the sample at aggregate
\* has the bin count and the normalization of the reference histograms, so
\* that it has the same total mass as every mixture of them.
C21_SameHistogram ==
    dm_pc = "aggregated" =>
        Matching(dm_quantifier, dm_reference[1], dm_test[1])

\* C21, the part that holds: the same for DyS and DMy
C21_SameHistogramDySDMy ==
    (dm_pc = "aggregated" /\ dm_quantifier.kind # "HDy") =>
        Matching(dm_quantifier, dm_reference[1], dm_test[1])

\* an HDy whose reference histograms sum to 1 and whose histogram of the
\* sample sums to the number of bins
C21_HdyMasses ==
    /\ dm_pc = "aggregated"
    /\ dm_quantifier.kind = "HDy"
    /\ \A b \in BinCounts(dm_quantifier) :
          /\ SameFraction(Mass(dm_reference[1][b].Pxy1_density, FALSE), <<1, 1>>)
          /\ SameFraction(Mass(dm_test[1][b], FALSE), <<b, 1>>)

----------------------------------------------------------------------------
(* ThresholdOptimization and its variants T50, MAX, X, MS, MS2,            *)
(* aggregative.py lines 1060-1311                                          *)

MaxInstances == 3    \* size of the validation predictions
MaxSample == 2       \* size of the sample given to aggregate
MaxDecision == 1     \* decision scores range over -1 .. MaxDecision

ThrMethods == { "T50", "MAX", "X", "MS", "MS2" }
Decisions == (0 - 1)..MaxDecision

\* sequences in non-decreasing order: the counts, the unique thresholds, the
\* mean and the median do not depend on the order of the instances
Scored == [score : Decisions, label : 0..1]
Key(x) == 2 * x.score + x.label
ValPredictions ==
    UNION { { s \in [1..n -> Scored] : \A i \in 1..(n - 1) : Key(s[i]) <= Key(s[i + 1]) }
            : n \in 1..MaxInstances }
ScoreSamples ==
    UNION { { s \in [1..n -> Decisions] : \A i \in 1..(n - 1) : s[i] <= s[i + 1] }
            : n \in 1..MaxSample }

Half == Round(1, 2, 0)
Quarter == Round(1, 4, 0)

\* _compute_table, lines 1151-1156, with y_ = 1 * (decision_scores >= t)
Table(val, t) ==
    LET I(lab, pred) == Cardinality({ i \in 1..Len(val) :
            val[i].label = lab /\ ((val[i].score >= t) <=> pred) })
    IN  [TP |-> I(1, TRUE), FP |-> I(0, TRUE), FN |-> I(1, FALSE), TN |-> I(0, FALSE)]

\* _compute_tpr and _compute_fpr, lines 1158-1166
compute_tpr(TP, FN) == IF TP + FN = 0 THEN One ELSE Round(TP, TP + FN, 0)
compute_fpr(FP, TN) == IF FP + TN = 0 THEN Zero ELSE Round(FP, FP + TN, 0)

\* discard: line 1105, overridden by MS2 at line 1311
\* (DiscardNothing: a discard that keeps every candidate)
DiscardNothing(method, tpr, fpr) == FALSE
discard(method, tpr, fpr) ==
    IF method = "MS2" THEN ~FLess(Quarter, FSub(tpr, fpr))
    ELSE FSub(tpr, fpr).m = 0

\* condition: lines 1199-1200, 1223-1225, 1248-1249, 1271-1272
\* (conditionOfMax: the condition of MAX used by every variant)
conditionOfMax(method, tpr, fpr) == FSub(fpr, tpr)
condition(method, tpr, fpr) ==
    CASE method = "T50" -> FAbs(FSub(tpr, Half))
      [] method = "MAX" -> FSub(fpr, tpr)
      [] method = "X" -> FAbs(FSub(One, FAdd(tpr, fpr)))
      [] OTHER -> One

\* np.unique(decision_scores)
Unique(val) == { val[i].score : i \in 1..Len(val) }

\* the candidate of one threshold: its row and its score
Candidate(method, val, t) ==
    LET T == Table(val, t)
        tpr == compute_tpr(T.TP, T.FN)
        fpr == compute_fpr(T.FP, T.TN)
    IN  [tpr |-> tpr, fpr |-> fpr, threshold |-> t,
         score |-> condition(method, tpr, fpr)]

\* lines 1121-1129: the candidates that are not discarded
Survivors(method, val) ==
    { c \in { Candidate(method, val, t) : t \in Unique(val) } :
        ~discard(method, c.tpr, c.fpr) }

\* lines 1131-1136: tpr=1, fpr=0, threshold=0 with score 0
\* (DefaultAllZero: a default triple with tpr=0)
DefaultAllZero == [tpr |-> Zero, fpr |-> Zero, threshold |-> 0, score |-> Zero]
DefaultCandidate == [tpr |-> One, fpr |-> Zero, threshold |-> 0, score |-> Zero]

Row(c) == [tpr |-> c.tpr, fpr |-> c.fpr, threshold |-> c.threshold]

\* a sequence holding the elements of a finite set, by increasing threshold
RECURSIVE ByThreshold(_)
ByThreshold(S) ==
    IF S = {} THEN << >>
    ELSE LET c == CHOOSE x \in S : \A y \in S : x.threshold <= y.threshold
         IN  << c >> \o ByThreshold(S \ {c})

\* _eval_candidate_thresholds, lines 1108-1141: the candidates in an order
\* np.argsort(scores) can give (candidates of equal score in any order)
EvalCandidateThresholds(method, val) ==
    LET surviving == Survivors(method, val)
        candidates == IF surviving = {} THEN { DefaultCandidate } ELSE surviving
    IN  { s \in [1..Cardinality(candidates) -> candidates] :
            /\ \A i, j \in DOMAIN s : i # j => s[i] # s[j]
            /\ \A i, j \in DOMAIN s : i < j => ~FLess(s[j].score, s[i].score) }

\* aggregation_fit: lines 1168-1172 keep row [0]; MS keeps all, lines 1274-1281
ThrAggregationFit ==
    /\ thr_pc = "idle"
    /\ \E method \in ThrMethods, val \in ValPredictions :
       \E sorted \in EvalCandidateThresholds(method, val) :
          /\ thr_method' = method
          /\ thr_val' = val
          /\ thr_fitted' = Some(IF method \in { "MS", "MS2" }
                                THEN [i \in DOMAIN sorted |-> Row(sorted[i])]
                                ELSE << Row(sorted[1]) >>)
    /\ thr_pc' = "fitted"
    /\ UNCHANGED << thr_sample, thr_estimate, nonThr >>

\* aggregate_with_threshold for one (tpr, fpr, threshold), lines 1143-1149
AggregateWithThreshold(sample, r) ==
    LET above == Cardinality({ i \in 1..Len(sample) : sample[i] >= r.threshold })
        prevs_estims == Round(above, Len(sample), 0)
    IN  AsBinaryPrevalence(FDiv(FSub(prevs_estims, r.fpr), FSub(r.tpr, r.fpr)))

\* the values of a sequence of floats in non-decreasing order
RECURSIVE SortFloats(_)
SortFloats(s) ==
    IF s = << >> THEN << >>
    ELSE LET i == CHOOSE k \in DOMAIN s : \A j \in DOMAIN s : ~FLess(s[j], s[k])
         IN  << s[i] >> \o SortFloats([j \in 1..(Len(s) - 1) |->
                                          IF j < i THEN s[j] ELSE s[j + 1]])

\* np.median of a non-empty sequence of floats: the middle value, or the mean
\* of the two middle values
Median(s) ==
    LET o == SortFloats(s)
        n == Len(s)
    IN  IF n % 2 = 1 THEN o[(n + 1) \div 2]
        ELSE FDiv(FAdd(o[n \div 2], o[(n \div 2) + 1]), Two)

\* np.median(prevalences, axis=0)
MedianPrevalence(ps) ==
    << Median([i \in DOMAIN ps |-> ps[i][1]]), Median([i \in DOMAIN ps |-> ps[i][2]]) >>

\* aggregate: lines 1174-1176; MS.aggregate, lines 1283-1287
ThrAggregate ==
    /\ thr_pc = "fitted"
    /\ \E sample \in ScoreSamples :
          /\ thr_sample' = sample
          /\ thr_estimate' = Some(
                LET estimates == [i \in DOMAIN thr_fitted[1] |->
                        AggregateWithThreshold(sample, thr_fitted[1][i])]
                IN  IF Len(estimates) > 1 THEN MedianPrevalence(estimates)
                    ELSE estimates[1])
    /\ thr_pc' = "aggregated"
    /\ UNCHANGED << thr_method, thr_val, thr_fitted, nonThr >>

InitThr ==
    /\ GridAtRest
    /\ OvaAtRest
    /\ MedianAtRest
    /\ QuantifierAtRest
    /\ AggAtRest
    /\ EmAtRest
    /\ TsAtRest
    /\ RcAtRest
    /\ MqAtRest
    /\ DmAtRest
    /\ ThrAtRest

NextThr ==
    \/ ThrAggregationFit
    \/ ThrAggregate

SpecThr == InitThr /\ [][NextThr]_vars


\* the rows retained by the last aggregation_fit
Retained == { thr_fitted[1][i] : i \in DOMAIN thr_fitted[1] }
NoSurvivor == thr_pc # "idle" /\ Survivors(thr_method, thr_val) = {}

\* the fraction of the scores of the sample that are >= 0
CountNonNegative ==
    Round(Cardinality({ i \in 1..Len(thr_sample) : thr_sample[i] >= 0 }),
          Len(thr_sample), 0)

\* C22: when no candidate threshold survives discarding, aggregation_fit
\* retains exactly the triple tpr=1, fpr=0, threshold=0, and aggregate returns
\* the fraction of scores >= 0 as the positive prevalence.
C22_DefaultIsUncorrectedCount ==
    NoSurvivor =>
        /\ thr_fitted[1] = << [tpr |-> One, fpr |-> Zero, threshold |-> 0] >>
        /\ thr_pc = "aggregated" =>
              thr_estimate[1] = << FSub(One, CountNonNegative), CountNonNegative >>

\* C22 witness: no candidate survived and aggregate has returned a count
\* strictly between 0 and 1
C22_Witness ==
    /\ NoSurvivor
    /\ thr_pc = "aggregated"
    /\ thr_estimate[1][2] = CountNonNegative
    /\ CountNonNegative = Half

\* the criterion of each variant, as a float computed from tpr and fpr
Criterion(method, c) ==
    CASE method = "T50" -> FAbs(FSub(c.tpr, Half))
      [] method = "MAX" -> FSub(c.fpr, c.tpr)
      [] method = "X" -> FAbs(FSub(One, FAdd(c.tpr, c.fpr)))

\* C23: for T50, MAX and X the retained triple is a surviving candidate whose
\* criterion is minimal among the surviving candidates; when a surviving
\* threshold has tpr exactly 0.5, the criterion of the triple T50 retains is 0.
C23_RetainedMinimizes ==
    (thr_pc # "idle" /\ thr_method \in { "T50", "MAX", "X" }
        /\ Survivors(thr_method, thr_val) # {}) =>
        LET S == Survivors(thr_method, thr_val)
            kept == thr_fitted[1][1]
        IN  /\ Len(thr_fitted[1]) = 1
            /\ \E c \in S : Row(c) = kept
            /\ \A c \in S :
                  ~FLess(Criterion(thr_method, c), Criterion(thr_method, kept))
            /\ (thr_method = "T50" /\ \E c \in S : c.tpr = Half) =>
                  Criterion("T50", kept) = Zero

\* C23 witness: a T50 fitted on predictions with several surviving
\* thresholds of different criterion, one of them with tpr exactly 0.5
C23_Witness ==
    /\ thr_pc = "fitted"
    /\ thr_method = "T50"
    /\ \E c, d \in Survivors(thr_method, thr_val) :
          /\ c.tpr = Half
          /\ Criterion("T50", d) # Zero
          /\ thr_fitted[1][1] = Row(c)

\* C27: every retained triple has tpr different from fpr (tpr - fpr > 0.25
\* for MS2), so the denominator computed by aggregate is not zero and the
\* estimate holds no nan.
C27_DenominatorNotZero ==
    thr_pc # "idle" =>
        /\ \A r \in Retained :
              /\ r.tpr # r.fpr
              /\ FSub(r.tpr, r.fpr).m # 0
              /\ thr_method = "MS2" => FLess(Quarter, FSub(r.tpr, r.fpr))
        /\ thr_pc = "aggregated" =>
              \A i \in 1..2 : thr_estimate[1][i].k = "num"

\* C27 witness: aggregate has returned for an MS that retained several
\* thresholds, one of them with tpr < fpr, the predictions holding a threshold
\* with tpr = fpr that was discarded
C27_Witness ==
    /\ thr_pc = "aggregated"
    /\ thr_method = "MS"
    /\ Cardinality(Retained) > 1
    /\ \E r \in Retained : FLess(r.tpr, r.fpr)
    /\ Cardinality(Survivors(thr_method, thr_val)) < Cardinality(Unique(thr_val))

\* C24 (MS, MS2): the median reported over the retained thresholds is a
\* prevalence vector
C24_MsMedianValid ==
    (thr_pc = "aggregated" /\ thr_method \in { "MS", "MS2" }) =>
        ValidPrevalence(thr_estimate[1])

----------------------------------------------------------------------------
(* AggregativeMedianEstimator.quantify, aggregative.py lines 1465-1477      *)

PrevDen == 3         \* members estimate a positive prevalence of k / PrevDen

\* what model.quantify(instances) of a fitted binary member returns: a
\* prevalence vector [1 - p, p]
MemberEstimates == { << FSub(One, Round(k, PrevDen, 0)), Round(k, PrevDen, 0) >> : k \in 0..PrevDen }

\* np.max in the place of np.median
MaxPrevalence(ps) ==
    << SortFloats([i \in DOMAIN ps |-> ps[i][1]])[Len(ps)],
       SortFloats([i \in DOMAIN ps |-> ps[i][2]])[Len(ps)] >>

\* line 1477: np.median(prev_preds, axis=0)
MedianOverMembers(ps) == MedianPrevalence(ps)

\* quantify, lines 1469-1477, on a fitted ensemble: every member's quantify
\* has returned, the median is taken
MedianQuantify ==
    /\ median_pc = "fitted"
    /\ median_estimate = NoneVal
    /\ \E preds \in [DOMAIN models[1] -> MemberEstimates] :
          /\ prev_preds' = preds
          /\ median_estimate' = Some(MedianOverMembers(preds))
    /\ UNCHANGED nonMq

\* fit and quantify of an AggregativeMedianEstimator
NextMedianQuantify ==
    \/ NextMedian /\ median_estimate = NoneVal
    \/ MedianQuantify

SpecMedianQuantify == InitMedian /\ [][NextMedianQuantify]_vars

\* C24: for a binary problem the elementwise median of the members' valid
\* prevalence vectors is a valid prevalence vector (entries in [0,1], summing
\* to 1), for an odd and for an even number of members.
C24_MedianIsPrevalence ==
    median_estimate # NoneVal =>
        /\ \A i \in DOMAIN prev_preds : ValidPrevalence(prev_preds[i])
        /\ ValidPrevalence(median_estimate[1])

\* C24 witness: the median of four members' estimates, not all equal, whose
\* two middle values differ
C24_Witness ==
    /\ median_estimate # NoneVal
    /\ Len(prev_preds) = 4
    /\ median_estimate[1] \notin { prev_preds[i] : i \in DOMAIN prev_preds }

\* the median over three members
C24_OddWitness ==
    /\ median_estimate # NoneVal
    /\ Len(prev_preds) = 3
    /\ Cardinality({ prev_preds[i] : i \in DOMAIN prev_preds }) = 3

----------------------------------------------------------------------------
(* EMQrecalib: classify and aggregation_fit, aggregative.py lines 575-620   *)

MaxRcCalls == 4      \* calls of set_params, aggregation_fit and classify on one object
NSamples == 2        \* distinct sets of instances (their raw posteriors)

\* values given to recalib: None, the four names of lines 598-605, another
Recalibs == { NoneVal, Some("nbvs"), Some("bcts"), Some("ts"), Some("vs"), Some("foo") }

\* sets of instances, named by the raw posteriors predict_proba gives on
\* them; TrainingX is data.X
RawPosteriors == 1..NSamples
TrainingX == 0
PredictProba(X) == [raw |-> X, calibrated |-> NoneVal]

\* lines 598-605 and 610: the calibrator of a name, applied to P and y
Calibrator(name, P) == [method |-> name, learnt_on |-> P]

\* calibration_function(posteriors): the posteriors transformed by f
Apply(f, posteriors) == [posteriors EXCEPT !.calibrated = Some(f)]

\* classify, lines 590-593, with the attribute f (NoneVal when absent)
classify(f, X) ==
    IF f # NoneVal THEN Apply(f[1], PredictProba(X)) ELSE PredictProba(X)

\* set_params(recalib=r, exact_train_prev=e)
RcSetParams ==
    /\ rc_calls < MaxRcCalls
    /\ \E r \in Recalibs, e \in BOOLEAN :
          /\ recalib' = r
          /\ exact_train_prev' = e
    /\ rc_pc' = "set"
    /\ rc_calls' = rc_calls + 1
    /\ UNCHANGED << calibration_function, train_prevalence, rc_fitted, rc_posteriors,
                    nonRc >>

\* aggregation_fit(classif_predictions, data), lines 595-620; P are the
\* posteriors of classif_predictions
RcAggregationFit ==
    /\ rc_calls < MaxRcCalls
    /\ rc_calls' = rc_calls + 1
    /\ \E P \in RawPosteriors :
          IF recalib # NoneVal /\ recalib[1] \notin RecalibNames
          THEN /\ rc_pc' = "ValueError"
               /\ UNCHANGED << calibration_function, train_prevalence, rc_fitted >>
          ELSE LET f == IF recalib # NoneVal THEN Some(Calibrator(recalib[1], P))
                        ELSE calibration_function
               IN  /\ calibration_function' = f
                   /\ train_prevalence' =
                         IF exact_train_prev THEN Some([of |-> "labels"])
                         ELSE IF recalib # NoneVal
                         THEN Some([of |-> "posteriors", mean |-> classify(f, TrainingX)])
                         ELSE Some([of |-> "posteriors", mean |-> PredictProba(P)])
                   /\ rc_fitted' = Some(recalib)
                   /\ rc_pc' = "fitted"
    /\ UNCHANGED << recalib, exact_train_prev, rc_posteriors, nonRc >>

\* classify(instances) on a quantifier whose aggregation function is fitted
RcClassify ==
    /\ rc_calls < MaxRcCalls
    /\ rc_fitted # NoneVal
    /\ rc_calls' = rc_calls + 1
    /\ \E X \in RawPosteriors :
          rc_posteriors' = Some(classify(calibration_function, X))
    /\ rc_pc' = "classified"
    /\ UNCHANGED << recalib, exact_train_prev, calibration_function, train_prevalence,
                    rc_fitted, nonRc >>

InitRc ==
    /\ GridAtRest
    /\ OvaAtRest
    /\ MedianAtRest
    /\ QuantifierAtRest
    /\ AggAtRest
    /\ EmAtRest
    /\ TsAtRest
    /\ DmAtRest
    /\ ThrAtRest
    /\ MqAtRest
    /\ recalib \in Recalibs
    /\ exact_train_prev \in BOOLEAN
    /\ RcNew

NextRc ==
    \/ RcSetParams
    \/ RcAggregationFit
    \/ RcClassify

SpecRc == InitRc /\ [][NextRc]_vars

\* classify has returned, and the last aggregation_fit ran with recalib None
RefitWithoutRecalib == rc_pc = "classified" /\ rc_fitted = Some(NoneVal)

\* C29 (as claimed): when classify is called after an aggregation_fit that
\* ran with recalib None, it returns the raw posteriors of the classifier: no
\* calibration function learnt by an earlier fit is applied.
C29_RefitDropsCalibration ==
    RefitWithoutRecalib => rc_posteriors[1].calibrated = NoneVal

\* the part of C29 that the code does satisfy: classify applies the attribute
\* calibration_function as it stands; a fit with a valid recalib name
\* replaces the attribute by the function of that name learnt on the
\* predictions of that fit; a fit with recalib None leaves it as it was; and
\* on an object never fitted with a recalibration method classify is raw
C29_ClassifyAppliesAttribute ==
    /\ [](rc_pc = "classified" => rc_posteriors[1].calibrated = calibration_function)
    /\ [](rc_pc = "fitted" /\ rc_fitted[1] # NoneVal =>
             /\ calibration_function # NoneVal
             /\ calibration_function[1].method = rc_fitted[1][1])
    /\ [][rc_pc' = "fitted" /\ rc_fitted' = Some(NoneVal) =>
             UNCHANGED calibration_function]_vars
    /\ [](calibration_function = NoneVal /\ rc_pc = "classified" =>
             rc_posteriors[1].calibrated = NoneVal)

\* an object fitted with 'bcts', set to recalib None, fitted again and then
\* asked to classify has returned posteriors transformed by the 'bcts'
\* function of the first fit
C29_StaleCalibration ==
    /\ RefitWithoutRecalib
    /\ rc_calls = 4
    /\ recalib = NoneVal
    /\ rc_posteriors[1].calibrated # NoneVal
    /\ rc_posteriors[1].calibrated[1].method = "bcts"

====
